---- MODULE Spec2Model ----
(***************************************************************************)
(* Knowledge-graph assembly (backend/app/kg_builder.py) and the            *)
(* activation-propagation ranking loop (backend/app/ttt.py).               *)
(*                                                                         *)
(* Conventions of the model                                                *)
(*  - A Python str whose characters matter (node ids, labels, queries) is  *)
(*    a sequence of one-character strings, so that lower(), split() and    *)
(*    the substring test are computed and not assumed.                     *)
(*  - A Python attribute dict is a function whose DOMAIN is the set of     *)
(*    keys present; dict.get(k, d) is Get(d, k, default).                  *)
(*  - A Python float is a fixed-point integer counted in 1/Unit.           *)
(***************************************************************************)
EXTENDS Integers, Sequences, FiniteSets, TLC

VARIABLES
    nodes,      \* KnowledgeGraphBuilder.graph: node id -> attribute dict
    edges,      \* KnowledgeGraphBuilder.graph: <<head, tail>> -> attribute dict
    ret,        \* the last call: its name, its arguments, the value it returned
    exc,        \* TRUE when the last call raised
    pathways,   \* _PATHWAY_DATA, loaded once at import
    ingested,   \* input records consumed by the ingest calls so far
    supplied,   \* history: entity text -> highest confidence given to add_entities
    relIns,     \* history: <<head, tail>> -> the insertions add_relations made
    _layout_cache,          \* KnowledgeGraphBuilder._layout_cache
    _layout_cache_key,      \* KnowledgeGraphBuilder._layout_cache_key, <<>> when not set
    query,                  \* the query given to rank or rank_robust
    ranker_client,          \* RobustRanker.client is set
    loop_client,            \* NeuroSymbolicLoop.client is set
    pc,                     \* where run_deep_think_stream is suspended
    max_steps,              \* run_deep_think_stream: max_steps
    step,                   \* run_deep_think_stream: step
    current_query,          \* run_deep_think_stream: current_query
    results,                \* run_deep_think_stream: results
    cumulative_activations, \* run_deep_think_stream: cumulative_activations
    context,                \* run_deep_think_stream: context
    events,                 \* the events the generator has yielded
    scored,                 \* history: the boosted scores of each round
    llm_failures,           \* history: the language-model calls of the run that failed
    cache,                  \* ExtractionCache.cache / SemanticCache.cache, oldest first
    _lock,                  \* ExtractionCache._lock: the thread holding it, or None
    clock,                  \* time.time() / datetime.now()
    thread,                 \* each thread's position in the call it is making
    recent,                 \* history: the cached keys, least recently used first
    evicted,                \* history: the last eviction, with the key least recently used
    _instance,              \* _GLiNER2Singleton._instance and _extractor_instance
    _instance_lock,         \* _GLiNER2Singleton._lock and _extractor_lock: the holder
    constructed             \* history: the instances constructed, per singleton

viewVars == <<_layout_cache, _layout_cache_key>>

kgVars == <<nodes, edges, ret, exc, pathways, ingested, supplied, relIns, viewVars>>

tttVars == <<query, ranker_client, loop_client, pc, max_steps, step, current_query,
             results, cumulative_activations, context, events, scored,
             llm_failures>>

procVars == <<cache, _lock, clock, thread, recent, evicted, _instance,
              _instance_lock, constructed>>

----------------------------------------------------------------------------
(* Threads, locks and singletons *)

None == "None"

(* The threads that call into the caches and the singletons *)
Threads == {"t1", "t2"}

(* A thread that is in no call *)
Idle == [pc |-> "idle"]

(* _GLiNER2Singleton (the model) and get_extractor (the extractor) *)
Singletons == {"model", "extractor"}

NoEviction == [op |-> "none"]

----------------------------------------------------------------------------
(* Bounds of the model *)

(* Input records (entity items, relation items, seeds, neighbour records)  *)
(* one builder is given over all its ingest calls                          *)
MaxItems == 3

(* Fixed-point scale: one float unit is 1/Unit (four decimals, the         *)
(* precision rank() rounds to).                                            *)
Unit == 10000

----------------------------------------------------------------------------
(* Strings *)

UpperChars == <<"A","B","C","D","E","F","G","H","I","J","K","L","M",
                "N","O","P","Q","R","S","T","U","V","W","X","Y","Z">>

LowerChars == <<"a","b","c","d","e","f","g","h","i","j","k","l","m",
                "n","o","p","q","r","s","t","u","v","w","x","y","z">>

DigitChars == {"0","1","2","3","4","5","6","7","8","9"}

IsUpperChar(c) == \E i \in 1..26 : UpperChars[i] = c

IsLowerChar(c) == \E i \in 1..26 : LowerChars[i] = c

IsAlphaChar(c) == IsUpperChar(c) \/ IsLowerChar(c)

IsDigitChar(c) == c \in DigitChars

IsSpaceChar(c) == c = " "

LowerChar(c) ==
    IF IsUpperChar(c)
    THEN LowerChars[CHOOSE i \in 1..26 : UpperChars[i] = c]
    ELSE c

(* str.lower() *)
Lower(s) == [i \in 1..Len(s) |-> LowerChar(s[i])]

(* str.isupper(): no lower-case character and at least one cased one *)
IsUpperStr(s) ==
    /\ \A i \in 1..Len(s) : ~IsLowerChar(s[i])
    /\ \E i \in 1..Len(s) : IsUpperChar(s[i])

(* `sub in s` *)
Contains(s, sub) ==
    \E i \in 0..(Len(s) - Len(sub)) : SubSeq(s, i + 1, i + Len(sub)) = sub

(* s.endswith(suf) *)
EndsWith(s, suf) ==
    /\ Len(suf) <= Len(s)
    /\ SubSeq(s, Len(s) - Len(suf) + 1, Len(s)) = suf

(* str.split(): the maximal runs of non-whitespace characters, in order *)
RECURSIVE SplitFrom(_, _, _)
SplitFrom(s, i, cur) ==
    IF i > Len(s)
    THEN IF cur = <<>> THEN <<>> ELSE <<cur>>
    ELSE IF IsSpaceChar(s[i])
         THEN (IF cur = <<>> THEN <<>> ELSE <<cur>>) \o SplitFrom(s, i + 1, <<>>)
         ELSE SplitFrom(s, i + 1, Append(cur, s[i]))

Split(s) == SplitFrom(s, 1, <<>>)

(* dict.get(k, default) *)
Get(d, k, default) == IF k \in DOMAIN d THEN d[k] ELSE default

(* d[k] = v on an attribute dict *)
SetAttr(d, k, v) == [x \in (DOMAIN d) \cup {k} |-> IF x = k THEN v ELSE d[x]]

NoAttrs == [x \in {} |-> 0]

----------------------------------------------------------------------------
(* Vocabulary of the inputs *)

KRAS == <<"K","R","A","S">>

P53 == <<"p","5","3">>

TUMOR == <<"t","u","m","o","r">>

CASCADE == <<"c","a","s","c","a","d","e">>

MAB == <<"m","a","b">>

HYPOXIA == <<"h","y","p","o","x","i","a">>

TCELL == <<"T"," ","c","e","l","l">>

EmptyStr == <<>>

----------------------------------------------------------------------------
(* kg_builder.py: style tables and helpers *)

DefaultNodeColor == "#9ca3af"

DefaultBorderColor == "#6b7280"

DefaultEdgeColor == "#94a3b8"

NODE_COLORS ==
    [gene |-> "#3b82f6", disease |-> "#ef4444", drug |-> "#10b981",
     pathway |-> "#8b5cf6", mutation |-> "#f59e0b", cell_type |-> "#06b6d4",
     biomarker |-> "#ec4899", mechanism |-> "#6366f1",
     anatomical_site |-> "#84cc16", clinical_outcome |-> "#14b8a6",
     Gene |-> "#3b82f6", Disease |-> "#ef4444", Drug |-> "#10b981",
     Pathway |-> "#8b5cf6", CellType |-> "#06b6d4"]

NODE_BORDER_COLORS ==
    [gene |-> "#2563eb", disease |-> "#dc2626", drug |-> "#059669",
     pathway |-> "#7c3aed", mutation |-> "#d97706", cell_type |-> "#0891b2",
     biomarker |-> "#db2777", mechanism |-> "#4f46e5",
     anatomical_site |-> "#65a30d", clinical_outcome |-> "#0d9488"]

EDGE_COLORS ==
    [targets |-> "#10b981", associated_with |-> "#6366f1",
     mutated_in |-> "#f59e0b", participates_in |-> "#8b5cf6",
     expressed_in |-> "#06b6d4", resistant_to |-> "#ef4444",
     biomarker_for |-> "#ec4899", drives |-> "#f97316",
     inhibits |-> "#64748b", synergizes_with |-> "#22c55e",
     driver |-> "#f97316"]

EDGE_LABELS ==
    [targets |-> "targets", associated_with |-> "assoc.",
     mutated_in |-> "mutated in", participates_in |-> "in pathway",
     expressed_in |-> "expressed in", resistant_to |-> "resistant to",
     biomarker_for |-> "biomarker for", drives |-> "drives",
     inhibits |-> "inhibits", synergizes_with |-> "synergy",
     driver |-> "driver"]

(* raw.lower().replace(" ", "_") over the type names of the vocabulary *)
LowerUnderscore(raw) ==
    CASE raw = "Cell Type" -> "cell_type"
      [] raw = "Target" -> "target"
      [] raw = "Gene" -> "gene"
      [] raw = "Disease" -> "disease"
      [] OTHER -> raw

(* rel_type.replace("_", " ") over the relation names of the vocabulary *)
UnderscoreToSpace(rel) ==
    CASE rel = "co_occurs" -> "co occurs"
      [] rel = "associated_with" -> "associated with"
      [] OTHER -> rel

(* "inhibit" in rel_label.lower() or "repress" in rel_label.lower(),       *)
(* over the relation labels of the vocabulary                              *)
IsInhibitorLabel(rel_label) == rel_label \in {"inhibits", "Represses"}

_normalise_type(raw) ==
    LET mapping == [Gene |-> "gene", Disease |-> "disease", Drug |-> "drug",
                    Pathway |-> "pathway", CellType |-> "cell_type",
                    Mutation |-> "mutation", Biomarker |-> "biomarker",
                    Mechanism |-> "mechanism"]
    IN  Get(mapping, raw, LowerUnderscore(raw))

(* Items of an entity list: a plain str, or a dict *)
StrItem(s) == [kind |-> "str", text |-> s]

DictItem(d) == [kind |-> "dict", d |-> d]

OtherItem == [kind |-> "other"]

entity_text(item) ==
    IF item.kind = "str" THEN item.text
    ELSE IF item.kind = "dict" THEN item.d.text
    ELSE EmptyStr

DefaultConfidence == 7000

_entity_confidence(item) ==
    IF item.kind = "dict"
    THEN Get(item.d, "confidence", DefaultConfidence)
    ELSE DefaultConfidence

(* round(x, 3) on a value counted in 1/Unit: to the nearest multiple of    *)
(* Unit/1000, a tie going to the even one                                  *)
Round3(x) ==
    LET q == Unit \div 1000
        lo == x \div q
        r == x - lo * q
    IN  IF 2 * r < q THEN lo * q
        ELSE IF 2 * r > q THEN (lo + 1) * q
        ELSE IF lo % 2 = 0 THEN lo * q ELSE (lo + 1) * q

DiseaseKw ==
    { <<"c","a","n","c","e","r">>,
      <<"c","a","r","c","i","n","o","m","a">>,
      <<"a","d","e","n","o","c","a","r","c","i","n","o","m","a">>,
      <<"m","e","l","a","n","o","m","a">>,
      <<"l","y","m","p","h","o","m","a">>,
      <<"l","e","u","k","e","m","i","a">>,
      <<"s","a","r","c","o","m","a">>,
      <<"g","l","i","o","m","a">>,
      TUMOR }

PathwayKw ==
    { <<"s","i","g","n","a","l","i","n","g">>,
      <<"p","a","t","h","w","a","y">>,
      CASCADE,
      <<"t","r","a","n","s","d","u","c","t","i","o","n">> }

DrugSuffixes ==
    { <<"i","b">>, <<"a","b">>, <<"m","a","b">>, <<"n","i","b">>,
      <<"l","i","b">>, <<"s","i","b">>, <<"z","u","m","a","b">> }

_infer_type(name) ==
    IF /\ IsUpperStr(name)
       /\ 2 <= Len(name) /\ Len(name) <= 8
       /\ \E i \in 1..Len(name) : IsAlphaChar(name[i])
    THEN "gene"
    ELSE IF /\ Len(name) <= 10
            /\ \E i \in 1..Len(name) : IsDigitChar(name[i])
            /\ IsAlphaChar(name[1])
    THEN "mutation"
    ELSE IF \E kw \in DiseaseKw : Contains(Lower(name), kw)
    THEN "disease"
    ELSE IF \E kw \in PathwayKw : Contains(Lower(name), kw)
    THEN "pathway"
    ELSE IF \E suf \in DrugSuffixes : EndsWith(Lower(name), suf)
    THEN "drug"
    ELSE "mechanism"

----------------------------------------------------------------------------
(* networkx.DiGraph, as far as the builder uses it *)

EmptyGraph == [nodes |-> [x \in {} |-> NoAttrs], edges |-> [x \in {} |-> NoAttrs]]

has_node(G, n) == n \in DOMAIN G.nodes

has_edge(G, u, v) == <<u, v>> \in DOMAIN G.edges

Put(f, k, v) == [x \in (DOMAIN f) \cup {k} |-> IF x = k THEN v ELSE f[x]]

(* graph.add_node(n, **attrs) for a node that is absent *)
add_node(G, n, attrs) == [G EXCEPT !.nodes = Put(G.nodes, n, attrs)]

(* graph.nodes[n][k] = v *)
set_node_attr(G, n, k, v) ==
    [G EXCEPT !.nodes = Put(G.nodes, n, SetAttr(G.nodes[n], k, v))]

(* graph[u][v][k] = val *)
set_edge_attr(G, u, v, k, val) ==
    [G EXCEPT !.edges = Put(G.edges, <<u, v>>, SetAttr(G.edges[<<u, v>>], k, val))]

(* graph.add_edge(u, v, **attrs) for an edge that is absent: networkx adds *)
(* an endpoint that is not a node yet, with no attributes                  *)
add_edge(G, u, v, attrs) ==
    LET n1 == IF u \in DOMAIN G.nodes THEN G.nodes ELSE Put(G.nodes, u, NoAttrs)
        n2 == IF v \in DOMAIN n1 THEN n1 ELSE Put(n1, v, NoAttrs)
    IN  [nodes |-> n2, edges |-> Put(G.edges, <<u, v>>, attrs)]

NodeAttrs(ntype, label, conf, src) ==
    [type |-> ntype, label |-> label, confidence |-> conf,
     color |-> Get(NODE_COLORS, ntype, DefaultNodeColor),
     border_color |-> Get(NODE_BORDER_COLORS, ntype, DefaultBorderColor),
     source |-> src]

EdgeAttrs(w, rel, label, color, src) ==
    [weight |-> w, relation |-> rel, label |-> label, color |-> color,
     source |-> src]

----------------------------------------------------------------------------
(* KnowledgeGraphBuilder.add_entities *)

(* Mutants of add_entities_item: the merge overwrites the confidence, or   *)
(* never raises it                                                         *)
add_entities_item_overwrite(acc, etype, item) ==
    LET G == acc.G
        text == entity_text(item)
        conf == _entity_confidence(item)
    IN  IF has_node(G, text)
        THEN [G |-> set_node_attr(G, text, "confidence", conf), added |-> acc.added]
        ELSE [G |-> add_node(G, text,
                        NodeAttrs(_normalise_type(etype), text, conf, "gliner2")),
              added |-> acc.added + 1]

add_entities_item_keep_first(acc, etype, item) ==
    LET G == acc.G
        text == entity_text(item)
        conf == _entity_confidence(item)
    IN  IF has_node(G, text)
        THEN acc
        ELSE [G |-> add_node(G, text,
                        NodeAttrs(_normalise_type(etype), text, conf, "gliner2")),
              added |-> acc.added + 1]

(* One iteration of the inner loop: `acc` is [G, added] *)
add_entities_item(acc, etype, item) ==
    LET G == acc.G
        norm_type == _normalise_type(etype)
        text == entity_text(item)
        conf == _entity_confidence(item)
    IN  IF has_node(G, text)
        THEN LET existing_conf == Get(G.nodes[text], "confidence", 0)
             IN  [G |-> IF conf > existing_conf
                        THEN set_node_attr(G, text, "confidence", conf)
                        ELSE G,
                  added |-> acc.added]
        ELSE [G |-> add_node(G, text, NodeAttrs(norm_type, text, conf, "gliner2")),
              added |-> acc.added + 1]

RECURSIVE add_entities_loop(_, _, _)
add_entities_loop(acc, batch, i) ==
    IF i > Len(batch) THEN acc
    ELSE add_entities_loop(
             add_entities_item(acc, batch[i].etype, batch[i].item), batch, i + 1)

(* `entities` is the dict {type: [items]} flattened in iteration order to a *)
(* sequence of [etype, item]                                               *)
add_entities(G, entities) ==
    add_entities_loop([G |-> G, added |-> 0], entities, 1)

----------------------------------------------------------------------------
(* KnowledgeGraphBuilder.add_relations *)

PairItem(elems) == [kind |-> "pair", elems |-> elems]

(* head_raw / tail_raw of a dict item: a str, a dict, or anything else      *)
(* (None, a number, a list), on which .get raises AttributeError           *)
EndpointText(raw) ==
    IF raw.kind = "str" THEN raw.text ELSE Get(raw.d, "text", EmptyStr)

EndpointConf(raw) ==
    IF raw.kind = "str" THEN DefaultConfidence
    ELSE Get(raw.d, "confidence", DefaultConfidence)

_parse_relation_item(item) ==
    IF item.kind = "pair" /\ Len(item.elems) >= 2
    THEN [head |-> item.elems[1], tail |-> item.elems[2],
          h_conf |-> DefaultConfidence, t_conf |-> DefaultConfidence,
          raised |-> FALSE]
    ELSE IF item.kind = "dict"
    THEN LET head_raw == Get(item.d, "head", DictItem(NoAttrs))
             tail_raw == Get(item.d, "tail", DictItem(NoAttrs))
         IN  IF head_raw.kind = "other" \/ tail_raw.kind = "other"
             THEN [head |-> EmptyStr, tail |-> EmptyStr, h_conf |-> 0,
                   t_conf |-> 0, raised |-> TRUE]
             ELSE [head |-> EndpointText(head_raw),
                   tail |-> EndpointText(tail_raw),
                   h_conf |-> EndpointConf(head_raw),
                   t_conf |-> EndpointConf(tail_raw),
                   raised |-> FALSE]
    ELSE [head |-> EmptyStr, tail |-> EmptyStr, h_conf |-> 0, t_conf |-> 0,
          raised |-> FALSE]

(* Mutant of _ensure_node: the node is tagged as an extracted entity *)
_ensure_node_as_extracted(G, name) ==
    IF has_node(G, name) THEN G
    ELSE add_node(G, name, NodeAttrs(_infer_type(name), name, Unit \div 2, "gliner2"))

_ensure_node(G, name) ==
    IF has_node(G, name) THEN G
    ELSE add_node(G, name, NodeAttrs(_infer_type(name), name, Unit \div 2, "inferred"))

(* The update of an edge that exists (lines 229-233) *)
strengthen_edge(G, head, tail, avg_conf, rel_type) ==
    LET existing == Get(G.edges[<<head, tail>>], "weight", 0)
    IN  IF avg_conf > existing
        THEN set_edge_attr(set_edge_attr(G, head, tail, "weight", avg_conf),
                           head, tail, "relation", rel_type)
        ELSE G

(* One iteration of the inner loop: `acc` is [G, added, raised] *)
add_relations_item(acc, rel_type, item) ==
    LET edge_color == Get(EDGE_COLORS, rel_type, DefaultEdgeColor)
        edge_label == Get(EDGE_LABELS, rel_type, UnderscoreToSpace(rel_type))
        p == _parse_relation_item(item)
    IN  IF p.raised THEN [acc EXCEPT !.raised = TRUE]
        ELSE IF p.head = EmptyStr \/ p.tail = EmptyStr THEN acc
        ELSE
          LET avg_conf == (p.h_conf + p.t_conf) \div 2
              G2 == _ensure_node(_ensure_node(acc.G, p.head), p.tail)
          IN  IF has_edge(G2, p.head, p.tail)
              THEN [acc EXCEPT !.G =
                        strengthen_edge(G2, p.head, p.tail, avg_conf, rel_type)]
              ELSE [acc EXCEPT
                      !.G = add_edge(G2, p.head, p.tail,
                                EdgeAttrs(Round3(avg_conf), rel_type, edge_label,
                                          edge_color, "gliner2")),
                      !.added = acc.added + 1]

RECURSIVE add_relations_loop(_, _, _)
add_relations_loop(acc, batch, i) ==
    IF i > Len(batch) \/ acc.raised THEN acc
    ELSE add_relations_loop(
             add_relations_item(acc, batch[i].rel, batch[i].item), batch, i + 1)

(* `relations` is the dict {rel_type: [items]} flattened in iteration order *)
(* to a sequence of [rel, item]                                            *)
add_relations(G, relations) ==
    add_relations_loop([G |-> G, added |-> 0, raised |-> FALSE], relations, 1)

----------------------------------------------------------------------------
(* KnowledgeGraphBuilder.add_opentargets_associations *)

(* Mutant of add_opentargets_neighbor: the edge is written whether one    *)
(* existed or not                                                         *)
add_opentargets_neighbor_overwrite(G, seed_name, n) ==
    LET nid == n.id
        ntype == _normalise_type(Get(n, "type", "gene"))
        score == Get(n, "score", Unit \div 2)
        G1 == IF has_node(G, nid) THEN G
              ELSE add_node(G, nid, NodeAttrs(ntype, nid, score, "opentargets"))
        rel == Get(n, "relation", "associated_with")
    IN  add_edge(G1, seed_name, nid,
            EdgeAttrs(Round3(score), rel, Get(EDGE_LABELS, rel, rel),
                      Get(EDGE_COLORS, rel, DefaultEdgeColor), "opentargets"))

add_opentargets_neighbor(G, seed_name, n) ==
    LET nid == n.id
        ntype == _normalise_type(Get(n, "type", "gene"))
        score == Get(n, "score", Unit \div 2)
        G1 == IF has_node(G, nid) THEN G
              ELSE add_node(G, nid, NodeAttrs(ntype, nid, score, "opentargets"))
        rel == Get(n, "relation", "associated_with")
    IN  IF has_edge(G1, seed_name, nid) THEN G1
        ELSE add_edge(G1, seed_name, nid,
                 EdgeAttrs(Round3(score), rel, Get(EDGE_LABELS, rel, rel),
                           Get(EDGE_COLORS, rel, DefaultEdgeColor), "opentargets"))

RECURSIVE add_opentargets_loop(_, _, _, _)
add_opentargets_loop(G, seed_name, neighbors, i) ==
    IF i > Len(neighbors) THEN G
    ELSE add_opentargets_loop(
             add_opentargets_neighbor(G, seed_name, neighbors[i]),
             seed_name, neighbors, i + 1)

add_opentargets_associations(G, seed_name, seed_type, neighbors) ==
    LET norm_seed == _normalise_type(seed_type)
        G1 == IF has_node(G, seed_name) THEN G
              ELSE add_node(G, seed_name,
                       NodeAttrs(norm_seed, seed_name, Unit, "opentargets"))
    IN  add_opentargets_loop(G1, seed_name, neighbors, 1)

----------------------------------------------------------------------------
(* KnowledgeGraphBuilder.add_pathway_enrichment *)

CuratedNode(G, name, ntype, conf) ==
    IF has_node(G, name) THEN G
    ELSE add_node(G, name, NodeAttrs(ntype, name, conf, "curated"))

CuratedEdge(G, u, v, w, rel, label, color) ==
    IF has_edge(G, u, v) THEN G
    ELSE add_edge(G, u, v, EdgeAttrs(w, rel, label, color, "curated"))

RECURSIVE add_pathway_nodes(_, _, _, _)
add_pathway_nodes(G, seed_gene, names, i) ==
    IF i > Len(names) THEN G
    ELSE add_pathway_nodes(
             CuratedEdge(CuratedNode(G, names[i], "pathway", 8500),
                         seed_gene, names[i], 8500, "participates_in",
                         "in pathway", EDGE_COLORS["participates_in"]),
             seed_gene, names, i + 1)

RECURSIVE add_cell_type_nodes(_, _, _, _)
add_cell_type_nodes(G, seed_gene, names, i) ==
    IF i > Len(names) THEN G
    ELSE add_cell_type_nodes(
             CuratedEdge(CuratedNode(G, names[i], "cell_type", 7500),
                         seed_gene, names[i], 7500, "expressed_in",
                         "expressed in", EDGE_COLORS["expressed_in"]),
             seed_gene, names, i + 1)

(* Mutant of SignalNode: a node that exists keeps the role it has *)
SignalNode_keep_role(G, name, role) ==
    IF has_node(G, name)
    THEN IF "signal_role" \in DOMAIN G.nodes[name] THEN G
         ELSE set_node_attr(G, name, "signal_role", role)
    ELSE add_node(G, name,
             SetAttr(NodeAttrs(_infer_type(name), name, 8000, "curated"),
                     "signal_role", role))

(* A signaling partner: created with its role, or its role overwritten *)
SignalNode(G, name, role) ==
    IF has_node(G, name)
    THEN set_node_attr(G, name, "signal_role", role)
    ELSE add_node(G, name,
             SetAttr(NodeAttrs(_infer_type(name), name, 8000, "curated"),
                     "signal_role", role))

SignalEdge(G, u, v, rel_label, direction) ==
    IF has_edge(G, u, v) THEN G
    ELSE add_edge(G, u, v,
             SetAttr(EdgeAttrs(8000, rel_label, rel_label,
                         IF IsInhibitorLabel(rel_label) THEN "#ef4444" ELSE "#22c55e",
                         "curated"),
                     "signal_direction", direction))

RECURSIVE add_upstream(_, _, _, _)
add_upstream(G, seed_gene, partners, i) ==
    IF i > Len(partners) THEN G
    ELSE add_upstream(
             SignalEdge(SignalNode(G, partners[i][1], "upstream"),
                        partners[i][1], seed_gene, partners[i][2], "upstream"),
             seed_gene, partners, i + 1)

RECURSIVE add_downstream(_, _, _, _)
add_downstream(G, seed_gene, partners, i) ==
    IF i > Len(partners) THEN G
    ELSE add_downstream(
             SignalEdge(SignalNode(G, partners[i][1], "downstream"),
                        seed_gene, partners[i][1], partners[i][2], "downstream"),
             seed_gene, partners, i + 1)

add_pathway_enrichment(G, data, seed_gene) ==
    LET sig == Get(data.signaling_cascades, seed_gene, NoAttrs)
        G1 == add_pathway_nodes(G, seed_gene,
                  Get(data.gene_pathways, seed_gene, <<>>), 1)
        G2 == add_cell_type_nodes(G1, seed_gene,
                  Get(data.gene_cell_types, seed_gene, <<>>), 1)
        G3 == add_upstream(G2, seed_gene, Get(sig, "upstream", <<>>), 1)
        G4 == add_downstream(G3, seed_gene, Get(sig, "downstream", <<>>), 1)
    IN  IF has_node(G4, seed_gene)
        THEN set_node_attr(G4, seed_gene, "signal_role", "target")
        ELSE G4

----------------------------------------------------------------------------
(* ttt.py: QueryAdaptiveRanker *)

learning_rate == 1000

steps == 5

decay == 8500

Max(a, b) == IF a >= b THEN a ELSE b

RECURSIVE SumFn(_, _)
SumFn(f, S) ==
    IF S = {} THEN 0
    ELSE LET x == CHOOSE y \in S : TRUE
         IN  f[x] + SumFn(f, S \ {x})

RECURSIVE MaxFn(_, _)
MaxFn(f, S) ==
    LET x == CHOOSE y \in S : TRUE
    IN  IF S = {x} THEN f[x] ELSE Max(f[x], MaxFn(f, S \ {x}))

(* a * b for two floats counted in 1/Unit *)
Mul(a, b) == (a * b) \div Unit

(* round(a / b, 4) for b > 0: the quotient counted in 1/Unit, to the       *)
(* nearest, a tie going to the even one                                    *)
RoundDiv(a, b) ==
    LET n == a * Unit
        q == n \div b
        r == n - q * b
    IN  IF 2 * r < b THEN q
        ELSE IF 2 * r > b THEN q + 1
        ELSE IF q % 2 = 0 THEN q ELSE q + 1

(* graph.neighbors(n), the successors of n, and graph.predecessors(n) *)
successors(G, n) == {m \in DOMAIN G.nodes : <<n, m>> \in DOMAIN G.edges}

predecessors(G, n) == {m \in DOMAIN G.nodes : <<m, n>> \in DOMAIN G.edges}

edge_weight(G, u, v) == Get(G.edges[<<u, v>>], "weight", Unit \div 2)

node_label(G, n) == Lower(Get(G.nodes[n], "label", n))

(* Step 1: the number of query terms (with repetition) the label contains *)
seed_score(G, n, query_terms) ==
    Unit * Cardinality({i \in 1..Len(query_terms) :
                            Contains(node_label(G, n), query_terms[i])})

(* Mutant of propagate_step: activation is pushed to every other node, an *)
(* edge or not                                                            *)
propagate_step_dense(G, activations) ==
    [n \in DOMAIN activations |->
        LET srcs == {m \in DOMAIN activations : m # n /\ activations[m] > 0}
        IN  Mul(activations[n], decay)
              + SumFn([m \in srcs |->
                         Mul(Mul(activations[m], Unit \div 2), learning_rate)],
                      srcs)]

(* One round of step 2: what node n holds afterwards is its decayed value, *)
(* plus what each active predecessor pushed forward to it, plus what each  *)
(* active successor pushed back to it at half strength                     *)
propagate_step(G, activations) ==
    [n \in DOMAIN activations |->
        LET srcs == {m \in predecessors(G, n) : activations[m] > 0}
            dsts == {m \in successors(G, n) : activations[m] > 0}
        IN  Mul(activations[n], decay)
              + SumFn([m \in srcs |->
                         Mul(Mul(activations[m], edge_weight(G, m, n)), learning_rate)],
                      srcs)
              + SumFn([m \in dsts |->
                         Mul(Mul(activations[m], edge_weight(G, n, m)), learning_rate)
                            \div 2],
                      dsts)]

RECURSIVE propagate(_, _, _)
propagate(G, activations, k) ==
    IF k = 0 THEN activations
    ELSE propagate(G, propagate_step(G, activations), k - 1)

(* Mutant of normalise: the scores are returned as propagated *)
normalise_skipped(activations) == activations

(* Step 3 *)
normalise(activations) ==
    LET max_score == IF DOMAIN activations = {} THEN Unit
                     ELSE MaxFn(activations, DOMAIN activations)
    IN  IF max_score > 0
        THEN [n \in DOMAIN activations |-> RoundDiv(activations[n], max_score)]
        ELSE activations

rank(G, q) ==
    LET query_terms == Split(Lower(q))
        seeded == [n \in DOMAIN G.nodes |-> seed_score(G, n, query_terms)]
    IN  normalise(propagate(G, seeded, steps))

----------------------------------------------------------------------------
(* ttt.py: RobustRanker *)

num_variations == 3

Take(seq, n) == SubSeq(seq, 1, IF Len(seq) < n THEN Len(seq) ELSE n)

(* An answer of the language model to the variations prompt: the lines of  *)
(* its text, or a failure (the call raised, or the response had no text)   *)
LlmLines(lines) == [ok |-> TRUE, lines |-> lines]

LlmFailure == [ok |-> FALSE]

RECURSIVE lstrip(_)
lstrip(str) ==
    IF str # <<>> /\ IsSpaceChar(Head(str)) THEN lstrip(Tail(str)) ELSE str

RECURSIVE rstrip(_)
rstrip(str) ==
    IF str # <<>> /\ IsSpaceChar(str[Len(str)])
    THEN rstrip(SubSeq(str, 1, Len(str) - 1)) ELSE str

strip(str) == rstrip(lstrip(str))

(* [line.strip() for line in text.split("\n") if line.strip()] *)
RECURSIVE stripped_lines(_)
stripped_lines(lines) ==
    IF lines = <<>> THEN <<>>
    ELSE IF strip(Head(lines)) = <<>> THEN stripped_lines(Tail(lines))
    ELSE <<strip(Head(lines))>> \o stripped_lines(Tail(lines))

_generate_variations(client, q, answer) ==
    IF ~client THEN <<q>>
    ELSE IF answer.ok THEN <<q>> \o Take(stripped_lines(answer.lines), num_variations)
    ELSE <<q>>

(* The largest r with r * r <= x, by bisection on lo..hi *)
RECURSIVE SqrtBetween(_, _, _)
SqrtBetween(x, lo, hi) ==
    IF lo >= hi THEN lo
    ELSE LET mid == (lo + hi + 1) \div 2
         IN  IF mid * mid <= x THEN SqrtBetween(x, mid, hi)
             ELSE SqrtBetween(x, lo, mid - 1)

(* statistics.mean and statistics.stdev of a list of scores in 1/Unit *)
mean(scores) ==
    SumFn(scores, DOMAIN scores) \div Len(scores)

stdev(scores) ==
    LET n == Len(scores)
        total == SumFn(scores, DOMAIN scores)
        squares == SumFn([i \in DOMAIN scores |-> scores[i] * scores[i]], DOMAIN scores)
    IN  SqrtBetween((n * squares - total * total) \div (n * (n - 1)), 0, Unit)

lambda_penalty == 5000

(* Mutant of aggregate: a node is kept whatever its aggregated score *)
aggregate_keep_all(all_activations) ==
    LET all_nodes == UNION {DOMAIN all_activations[i] : i \in DOMAIN all_activations}
    IN  [node \in all_nodes |->
            LET scores == [i \in DOMAIN all_activations |->
                              Get(all_activations[i], node, 0)]
                std_dev == IF Len(scores) > 1 THEN stdev(scores) ELSE 0
            IN  mean(scores) - Mul(lambda_penalty, std_dev)]

(* Lines 238-253: per node, mean - lambda * stdev over the runs, kept when *)
(* positive                                                                *)
aggregate(all_activations) ==
    LET all_nodes == UNION {DOMAIN all_activations[i] : i \in DOMAIN all_activations}
        robust_score ==
            [node \in all_nodes |->
                LET scores == [i \in DOMAIN all_activations |->
                                  Get(all_activations[i], node, 0)]
                    std_dev == IF Len(scores) > 1 THEN stdev(scores) ELSE 0
                IN  mean(scores) - Mul(lambda_penalty, std_dev)]
    IN  [node \in {n \in all_nodes : robust_score[n] > 0} |-> robust_score[node]]

rank_robust(G, client, q, answer) ==
    LET variations == _generate_variations(client, q, answer)
    IN  aggregate([i \in DOMAIN variations |-> rank(G, variations[i])])

----------------------------------------------------------------------------
(* ttt.py: CrossDomainBooster *)

(* math.log of 1..8, in 1/Unit *)
Ln == <<0, 6931, 10986, 13863, 16094, 17918, 19459, 20794>>

boost_threshold == 500

entropy_weight == 2000

(* Lines 148-167: the entropy of the types of a node's successors *)
entropy(G, neighbors_) ==
    LET n_type == [n \in neighbors_ |-> Get(G.nodes[n], "type", "unknown")]
        types == {n_type[n] : n \in neighbors_}
        type_counts == [t \in types |-> Cardinality({n \in neighbors_ : n_type[n] = t})]
        total_neighbors == Cardinality(neighbors_)
    IN  SumFn([t \in types |->
                  (type_counts[t] * (Ln[total_neighbors] - Ln[type_counts[t]]))
                      \div total_neighbors],
              types)

boost_factor(G, node) == Unit + Mul(entropy(G, successors(G, node)), entropy_weight)

(* Mutant of boost: every scored node with a successor is raised by half *)
boost_flat_half(G, activations) ==
    [node \in DOMAIN activations |->
        IF node \in DOMAIN G.nodes /\ successors(G, node) # {}
        THEN Mul(activations[node], Unit + Unit \div 2)
        ELSE activations[node]]

(* Mutant of boost: a score equal to the floor is left alone *)
boost_above_floor(G, activations) ==
    [node \in DOMAIN activations |->
        IF /\ node \in DOMAIN G.nodes
           /\ activations[node] > boost_threshold
           /\ successors(G, node) # {}
        THEN Mul(activations[node], boost_factor(G, node))
        ELSE activations[node]]

boost(G, activations) ==
    [node \in DOMAIN activations |->
        IF /\ node \in DOMAIN G.nodes
           /\ activations[node] >= boost_threshold
           /\ successors(G, node) # {}
        THEN Mul(activations[node], boost_factor(G, node))
        ELSE activations[node]]

(* Mutant of boost_call: the scores are raised in the map that was given *)
boost_call_in_place(G, activations) ==
    [returned |-> boost(G, activations), activations |-> boost(G, activations)]

(* A call of boost: what it returns, and the map it was given as the call  *)
(* leaves it; line 137 copies the map and only the copy is written         *)
boost_call(G, activations) ==
    [returned |-> boost(G, activations), activations |-> activations]

----------------------------------------------------------------------------
(* ttt.py: NeuroSymbolicLoop *)

TERMINATE == <<"T", "E", "R", "M", "I", "N", "A", "T", "E">>

(* An answer of the language model to the reflection prompt: the fields of *)
(* the JSON object in its text, or a failure (the call raised, or the text *)
(* held no JSON object)                                                    *)
ReflectJson(fields) == [ok |-> TRUE, fields |-> fields]

ReflectFailure == [ok |-> FALSE]

(* Mutant of llm_reflect: "if not self.client" is left out, the answer of  *)
(* the reflection is read whether a client is set or not                   *)
llm_reflect_without_client_check(client, context_history, answer) ==
    IF \E i \in 1..Len(context_history) : "0" \notin DOMAIN context_history[i]
    THEN [next_query |-> EmptyStr, rationale |-> "", raised |-> TRUE]
    ELSE IF answer.ok
    THEN [next_query |-> Get(answer.fields, "next_query", TERMINATE),
          rationale |-> Get(answer.fields, "rationale", ""),
          raised |-> FALSE]
    ELSE [next_query |-> TERMINATE, rationale |-> "Error", raised |-> FALSE]

(* The prompt is built before the try block; it reads c[0] of every record *)
(* of the history, and a record is a dict with the keys query, top_nodes   *)
(* and rationale: with one record or more the lookup raises KeyError (the  *)
(* key 0 is written "0", the keys of a record being strings)               *)
llm_reflect(client, context_history, answer) ==
    IF ~client
    THEN [next_query |-> EmptyStr, rationale |-> "No LLM", raised |-> FALSE]
    ELSE IF \E i \in 1..Len(context_history) :
                "0" \notin DOMAIN context_history[i]
    THEN [next_query |-> EmptyStr, rationale |-> "", raised |-> TRUE]
    ELSE IF answer.ok
    THEN [next_query |-> Get(answer.fields, "next_query", TERMINATE),
          rationale |-> Get(answer.fields, "rationale", ""),
          raised |-> FALSE]
    ELSE [next_query |-> TERMINATE, rationale |-> "Error", raised |-> FALSE]

(* Mutant of merge: the score of the last round replaces the earlier one *)
merge_last(cumulative, scores) ==
    [n \in (DOMAIN cumulative) \cup (DOMAIN scores) |->
        IF n \in DOMAIN scores THEN scores[n] ELSE cumulative[n]]

(* Lines 424-425 *)
merge(cumulative, scores) ==
    [n \in (DOMAIN cumulative) \cup (DOMAIN scores) |->
        IF n \in DOMAIN scores THEN Max(Get(cumulative, n, 0), scores[n])
        ELSE cumulative[n]]

(* list(results.keys())[:5]: five of the keys, or all when there are fewer; *)
(* the keys come in the iteration order of a set of strings, which is any   *)
top_nodes_choices(scores) ==
    {top \in SUBSET DOMAIN scores :
        Cardinality(top) = IF Cardinality(DOMAIN scores) < 5
                           THEN Cardinality(DOMAIN scores) ELSE 5}

StepStartEvent(n, q) == [type |-> "step_start", step |-> n, query |-> q]

StatusEvent(n, stage) == [type |-> "status", step |-> n, stage |-> stage]

SaturatedEvent == [type |-> "status", stage |-> "saturated"]

ResultEvent(activations, trace) ==
    [type |-> "result", data |-> [activations |-> activations, trace |-> trace]]

(* run_deep_think: the data of the last result event, or the empty result *)
RECURSIVE last_result(_, _)
last_result(evs, i) ==
    IF i = 0 THEN [activations |-> NoAttrs, trace |-> <<>>]
    ELSE IF evs[i].type = "result" THEN evs[i].data
    ELSE last_result(evs, i - 1)

run_deep_think(evs) == last_result(evs, Len(evs))

----------------------------------------------------------------------------
(* KnowledgeGraphBuilder.compute_layout *)

Tenths == 10

(* round(n / d) for d > 0, a tie going to the even one *)
RoundQuot(n, d) ==
    LET q == n \div d
        r == n - q * d
    IN  IF 2 * r < d THEN q
        ELSE IF 2 * r > d THEN q + 1
        ELSE IF q % 2 = 0 THEN q ELSE q + 1

MinFn(f, S) == -MaxFn([x \in S |-> -f[x]], S)

(* nx.spring_layout(graph, seed=42, ...): with the seed fixed the result   *)
(* is a function of the nodes, the edges and their weights. The force      *)
(* simulation is not computed: a node is placed by the weights of its      *)
(* edges (out minus in, and their sum); a single node is placed at the     *)
(* centre, as networkx does                                                *)
spring_layout(G) ==
    [n \in DOMAIN G.nodes |->
        LET out == SumFn([m \in successors(G, n) |->
                            Get(G.edges[<<n, m>>], "weight", Unit)],
                         successors(G, n))
            in == SumFn([m \in predecessors(G, n) |->
                            Get(G.edges[<<m, n>>], "weight", Unit)],
                        predecessors(G, n))
        IN  <<out - in, out + in>>]

(* Lines 468-469: a coordinate scaled into the frame, in tenths *)
scale_coord(v, v_min, v_range, extent, padding) ==
    Tenths * padding
       + RoundQuot((v - v_min) * (extent - 2 * padding) * Tenths, v_range)

(* Lines 454-471 *)
scaled_layout(G, width, height, padding) ==
    LET pos == spring_layout(G)
        xs == [n \in DOMAIN pos |-> pos[n][1]]
        ys == [n \in DOMAIN pos |-> pos[n][2]]
        x_min == MinFn(xs, DOMAIN pos)
        y_min == MinFn(ys, DOMAIN pos)
        x_span == MaxFn(xs, DOMAIN pos) - x_min
        y_span == MaxFn(ys, DOMAIN pos) - y_min
        x_range == IF x_span = 0 THEN Unit ELSE x_span
        y_range == IF y_span = 0 THEN Unit ELSE y_span
    IN  [nid \in DOMAIN pos |->
            <<scale_coord(pos[nid][1], x_min, x_range, width, padding),
              scale_coord(pos[nid][2], y_min, y_range, height, padding)>>]

number_of_nodes(G) == Cardinality(DOMAIN G.nodes)

number_of_edges(G) == Cardinality(DOMAIN G.edges)

(* The two attributes of the cache; key <<>> stands for the attributes not *)
(* being set yet                                                           *)
NoLayoutCache == [_layout_cache |-> NoAttrs, _layout_cache_key |-> <<>>]

(* Mutant of compute_layout: the key leaves the width out *)
compute_layout_key_without_width(G, self, width, height, padding) ==
    LET cache_key == <<number_of_nodes(G), number_of_edges(G), width, height>>
    IN  IF number_of_nodes(G) = 0
        THEN [value |-> NoAttrs, cache |-> self, computed |-> FALSE]
        ELSE IF /\ self._layout_cache_key # <<>>
                /\ self._layout_cache_key[1] = cache_key[1]
                /\ self._layout_cache_key[2] = cache_key[2]
                /\ self._layout_cache_key[4] = cache_key[4]
        THEN [value |-> self._layout_cache, cache |-> self, computed |-> FALSE]
        ELSE LET scaled == scaled_layout(G, width, height, padding)
             IN  [value |-> scaled,
                  cache |-> [_layout_cache |-> scaled, _layout_cache_key |-> cache_key],
                  computed |-> TRUE]

(* What the call returns, the cache it leaves, and whether it computed *)
compute_layout(G, self, width, height, padding) ==
    LET cache_key == <<number_of_nodes(G), number_of_edges(G), width, height>>
    IN  IF number_of_nodes(G) = 0
        THEN [value |-> NoAttrs, cache |-> self, computed |-> FALSE]
        ELSE IF self._layout_cache_key # <<>> /\ self._layout_cache_key = cache_key
        THEN [value |-> self._layout_cache, cache |-> self, computed |-> FALSE]
        ELSE LET scaled == scaled_layout(G, width, height, padding)
             IN  [value |-> scaled,
                  cache |-> [_layout_cache |-> scaled, _layout_cache_key |-> cache_key],
                  computed |-> TRUE]

----------------------------------------------------------------------------
(* KnowledgeGraphBuilder.serialise *)

BASE_RADIUS == 22

MAX_RADIUS == 38

degree(G, n) == Cardinality(successors(G, n)) + Cardinality(predecessors(G, n))

(* nx.degree_centrality: degree / (n - 1), and 1 for a graph of one node *)
degree_centrality(G) ==
    [n \in DOMAIN G.nodes |->
        IF number_of_nodes(G) <= 1 THEN Unit
        ELSE (degree(G, n) * Unit) \div (number_of_nodes(G) - 1)]

(* Lines 537-538 and 550: the radius, in tenths *)
radius(cent, conf) ==
    LET importance == (4000 * cent + 6000 * conf) \div Unit
    IN  RoundQuot(BASE_RADIUS * Unit + (MAX_RADIUS - BASE_RADIUS) * importance,
                  Unit \div Tenths)

(* t.replace("_", " ").title() over the types of the vocabulary *)
TitleCase(t) ==
    CASE t = "target" -> "Target"
      [] t = "unknown" -> "Unknown"
      [] OTHER -> t

type_display ==
    [gene |-> "Gene / Target", disease |-> "Disease", drug |-> "Drug / Compound",
     pathway |-> "Signaling Pathway", mutation |-> "Mutation",
     cell_type |-> "Cell Type", biomarker |-> "Biomarker",
     mechanism |-> "Mechanism", anatomical_site |-> "Anatomical Site",
     clinical_outcome |-> "Clinical Outcome"]

(* Counts of the values key takes over the attribute dicts of a graph part *)
counts_of(items, key, default) ==
    LET vals == {Get(items[x], key, default) : x \in DOMAIN items}
    IN  [v \in vals |-> Cardinality({x \in DOMAIN items : Get(items[x], key, default) = v})]

node_data(G, pos, centrality, nid) ==
    LET attrs == G.nodes[nid]
        conf == Get(attrs, "confidence", Unit \div 2)
        base == [id |-> nid,
                 type |-> Get(attrs, "type", "unknown"),
                 label |-> Get(attrs, "label", nid),
                 color |-> Get(attrs, "color", DefaultNodeColor),
                 border_color |-> Get(attrs, "border_color", DefaultBorderColor),
                 confidence |-> Round3(conf),
                 radius |-> radius(Get(centrality, nid, 0), conf),
                 pos |-> Get(pos, nid, <<400 * Tenths, 300 * Tenths>>),
                 degree |-> degree(G, nid),
                 source |-> Get(attrs, "source", "unknown"),
                 glow |-> conf > 8000]
    IN  IF "signal_role" \in DOMAIN attrs
        THEN SetAttr(base, "signal_role", attrs.signal_role)
        ELSE base

link_data(G, e) ==
    LET attrs == G.edges[e]
        rel == Get(attrs, "relation", "associated_with")
        weight == Get(attrs, "weight", Unit \div 2)
        base == [source |-> e[1],
                 target |-> e[2],
                 relation |-> rel,
                 label |-> Get(attrs, "label", UnderscoreToSpace(rel)),
                 weight |-> Round3(weight),
                 color |-> Get(attrs, "color", DefaultEdgeColor),
                 thickness |-> RoundQuot(Unit + 4 * weight, Unit \div Tenths),
                 source_data |-> Get(attrs, "source", "unknown"),
                 animated |-> weight > 8000]
    IN  IF "signal_direction" \in DOMAIN attrs
        THEN SetAttr(base, "signal_direction", attrs.signal_direction)
        ELSE base

(* The payload: the lists nodes, links and legend are kept as maps from    *)
(* the id, the edge and the type, their order being left out               *)
EmptyPayload ==
    [nodes |-> NoAttrs,
     links |-> NoAttrs,
     stats |-> [total_nodes |-> 0, total_edges |-> 0, entity_types |-> NoAttrs,
                relation_types |-> NoAttrs, sources |-> NoAttrs],
     legend |-> NoAttrs]

(* What the call returns and the layout cache it leaves *)
serialise(G, self, width, height) ==
    IF number_of_nodes(G) = 0
    THEN [value |-> EmptyPayload, cache |-> self]
    ELSE LET layout == compute_layout(G, self, width, height, 60)
             centrality == degree_centrality(G)
             type_counts == counts_of(G.nodes, "type", "unknown")
         IN  [value |->
                 [nodes |-> [nid \in DOMAIN G.nodes |->
                                node_data(G, layout.value, centrality, nid)],
                  links |-> [e \in DOMAIN G.edges |-> link_data(G, e)],
                  stats |-> [total_nodes |-> number_of_nodes(G),
                             total_edges |-> number_of_edges(G),
                             entity_types |-> type_counts,
                             relation_types |->
                                 counts_of(G.edges, "relation", "associated_with"),
                             sources |-> counts_of(G.nodes, "source", "unknown")],
                  legend |-> [t \in DOMAIN type_counts |->
                                 [type |-> t,
                                  color |-> Get(NODE_COLORS, t, DefaultNodeColor),
                                  count |-> type_counts[t],
                                  label |-> Get(type_display, t, TitleCase(t))]]],
              cache |-> layout.cache]

----------------------------------------------------------------------------
(* Inputs of the ingest operations *)


EntityNames == {KRAS, TUMOR}

HighConfidence == 9004

LowScore == 3000

EntityItems ==
    {StrItem(n) : n \in EntityNames}
      \cup {DictItem([text |-> n, confidence |-> HighConfidence]) : n \in EntityNames}

(* The (type, item) entries an entities dict is made of *)
EntityEntries ==
    [etype : {"Gene"}, item : EntityItems]
      \cup [etype : {"disease"}, item : {StrItem(n) : n \in EntityNames}]

(* The sequences of one to n elements of S *)
Batches(S, n) == UNION {[1..k -> S] : k \in 1..n}

(* A dict's keys are distinct: the items of one key are contiguous *)
Grouped(batch, key(_)) ==
    \A i, j \in 1..Len(batch) :
        (i < j /\ key(batch[i]) = key(batch[j]))
            => \A m \in i..j : key(batch[m]) = key(batch[i])

EntityKey(e) == e.etype

EntityBatches(n) ==
    {b \in Batches(EntityEntries, n) : Grouped(b, EntityKey)}

StrongItem(head, tail) ==
    DictItem([head |-> DictItem([text |-> head, confidence |-> HighConfidence]),
              tail |-> StrItem(tail)])

WellFormedRelationItems ==
    {PairItem(<<KRAS, TUMOR>>), StrongItem(KRAS, TUMOR),
     PairItem(<<P53, TUMOR>>), PairItem(<<TUMOR, KRAS>>)}

MalformedRelationItems ==
    {OtherItem,
     DictItem([head |-> StrItem(P53)]),
     DictItem([head |-> OtherItem, tail |-> StrItem(TUMOR)])}

(* The (relation type, item) entries a relations dict is made of *)
RelationEntries ==
    [rel : {"targets"}, item : WellFormedRelationItems \cup MalformedRelationItems]
      \cup [rel : {"co_occurs"},
            item : {PairItem(<<KRAS, TUMOR>>), StrongItem(KRAS, TUMOR)}]

RelationKey(r) == r.rel

RelationBatches(n) ==
    {b \in Batches(RelationEntries, n) : Grouped(b, RelationKey)}

NeighborRecords ==
    {[id |-> TUMOR],
     [id |-> P53, type |-> "Cell Type", score |-> LowScore, relation |-> "targets"]}

NeighborLists(n) == {<<>>} \cup Batches(NeighborRecords, n)

SeedNames == {KRAS, P53}

SeedTypes == {"Gene", "target"}

EnrichmentSeeds == {KRAS, TUMOR}

NoPathwayData ==
    [gene_pathways |-> [x \in {} |-> <<>>],
     gene_cell_types |-> [x \in {} |-> <<>>],
     signaling_cascades |-> [x \in {} |-> NoAttrs]]

PathwayData1 ==
    [gene_pathways |-> [x \in {KRAS} |-> <<CASCADE>>],
     gene_cell_types |-> [x \in {KRAS} |-> <<TCELL>>],
     signaling_cascades |->
        [x \in {KRAS} |->
            [upstream |-> << <<HYPOXIA, "activates">> >>,
             downstream |-> << <<MAB, "inhibits">> >>]]]

PathwayData2 ==
    [gene_pathways |-> [x \in {} |-> <<>>],
     gene_cell_types |-> [x \in {} |-> <<>>],
     signaling_cascades |->
        [x \in {KRAS} |->
            [upstream |-> << <<P53, "activates">> >>,
             downstream |-> << <<P53, "Represses">>, <<KRAS, "activates">> >>]]]

PathwayTables == {NoPathwayData, PathwayData1, PathwayData2}

----------------------------------------------------------------------------
(* The builder as a state machine *)

Graph == [nodes |-> nodes, edges |-> edges]

(* History of add_entities: the highest confidence given for each text *)
RECURSIVE NoteSupplied(_, _, _)
NoteSupplied(sup, batch, i) ==
    IF i > Len(batch) THEN sup
    ELSE LET text == entity_text(batch[i].item)
             conf == _entity_confidence(batch[i].item)
         IN  NoteSupplied(Put(sup, text, Max(conf, Get(sup, text, conf))), batch, i + 1)

(* History of add_relations: per ordered pair, the insertions made, each   *)
(* with the weight (h_conf + t_conf) / 2 and the relation type it carried  *)
RECURSIVE NoteInsertions(_, _, _)
NoteInsertions(ins, batch, i) ==
    IF i > Len(batch) THEN ins
    ELSE LET p == _parse_relation_item(batch[i].item)
         IN  IF p.raised THEN ins
             ELSE IF p.head = EmptyStr \/ p.tail = EmptyStr
             THEN NoteInsertions(ins, batch, i + 1)
             ELSE NoteInsertions(
                      Put(ins, <<p.head, p.tail>>,
                          Append(Get(ins, <<p.head, p.tail>>, <<>>),
                                 [weight |-> (p.h_conf + p.t_conf) \div 2,
                                  rel |-> batch[i].rel])),
                      batch, i + 1)

(* No ranking has been asked for and no loop is running *)
(* Nothing cached, no lock held, no thread in a call, no instance made *)
InitProc ==
    /\ cache = <<>>
    /\ _lock = None
    /\ clock = 0
    /\ thread = [t \in Threads |-> Idle]
    /\ recent = <<>>
    /\ evicted = NoEviction
    /\ _instance = [s \in Singletons |-> None]
    /\ _instance_lock = [s \in Singletons |-> None]
    /\ constructed = [s \in Singletons |-> {}]

InitTTT ==
    /\ query = EmptyStr
    /\ ranker_client = FALSE
    /\ loop_client = FALSE
    /\ pc = "idle"
    /\ max_steps = 0
    /\ step = 0
    /\ current_query = EmptyStr
    /\ results = NoAttrs
    /\ cumulative_activations = NoAttrs
    /\ context = <<>>
    /\ events = <<>>
    /\ scored = <<>>
    /\ llm_failures = <<>>

InitKG ==
    /\ nodes = EmptyGraph.nodes
    /\ edges = EmptyGraph.edges
    /\ ret = [op |-> "init"]
    /\ exc = FALSE
    /\ pathways \in PathwayTables
    /\ ingested = 0
    /\ supplied = [x \in {} |-> 0]
    /\ relIns = [x \in {} |-> <<>>]
    /\ _layout_cache = NoLayoutCache._layout_cache
    /\ _layout_cache_key = NoLayoutCache._layout_cache_key
    /\ InitTTT
    /\ InitProc

AddEntities ==
    /\ \E entities \in EntityBatches(MaxItems - ingested) :
         LET r == add_entities(Graph, entities)
         IN  /\ nodes' = r.G.nodes
             /\ edges' = r.G.edges
             /\ ret' = [op |-> "add_entities", value |-> r.added]
             /\ ingested' = ingested + Len(entities)
             /\ supplied' = NoteSupplied(supplied, entities, 1)
    /\ exc' = FALSE
    /\ UNCHANGED <<pathways, procVars, relIns, tttVars, viewVars>>

AddRelations ==
    /\ \E relations \in RelationBatches(MaxItems - ingested) :
         LET r == add_relations(Graph, relations)
         IN  /\ nodes' = r.G.nodes
             /\ edges' = r.G.edges
             /\ ret' = IF r.raised THEN [op |-> "add_relations"]
                       ELSE [op |-> "add_relations", value |-> r.added]
             /\ exc' = r.raised
             /\ ingested' = ingested + Len(relations)
             /\ relIns' = NoteInsertions(relIns, relations, 1)
    /\ UNCHANGED <<pathways, procVars, supplied, tttVars, viewVars>>

AddOpenTargets ==
    /\ ingested < MaxItems
    /\ \E seed_name \in SeedNames, seed_type \in SeedTypes,
          neighbors \in NeighborLists(MaxItems - ingested - 1) :
         LET G == add_opentargets_associations(Graph, seed_name, seed_type, neighbors)
         IN  /\ nodes' = G.nodes
             /\ edges' = G.edges
             /\ ingested' = ingested + 1 + Len(neighbors)
             /\ ret' = [op |-> "add_opentargets_associations",
                        seed_name |-> seed_name, neighbors |-> neighbors]
    /\ exc' = FALSE
    /\ UNCHANGED <<pathways, procVars, supplied, relIns, tttVars, viewVars>>

AddPathwayEnrichment ==
    /\ ingested < MaxItems
    /\ \E seed_gene \in EnrichmentSeeds :
         LET G == add_pathway_enrichment(Graph, pathways, seed_gene)
         IN  /\ nodes' = G.nodes
             /\ edges' = G.edges
             /\ ret' = [op |-> "add_pathway_enrichment", seed_gene |-> seed_gene]
    /\ exc' = FALSE
    /\ ingested' = ingested + 1
    /\ UNCHANGED <<pathways, procVars, supplied, relIns, tttVars, viewVars>>

NextKG == AddEntities \/ AddRelations \/ AddOpenTargets \/ AddPathwayEnrichment

vars == <<kgVars, tttVars, procVars>>

Spec == InitKG /\ [][NextKG]_vars

(* Only add_entities is called on the builder *)
SpecEntities == InitKG /\ [][AddEntities]_vars

(* Only add_relations is called on the builder *)
SpecRelations == InitKG /\ [][AddRelations]_vars

----------------------------------------------------------------------------
(* Inputs of the rankers and of the loop *)

MaxRelations == 2

MaxSteps == 3

LUNG == <<"l", "u", "n", "g">>

KRAS_TUMOR == <<"k", "r", "a", "s", " ", "t", "u", "m", "o", "r">>

Queries == {KRAS, KRAS_TUMOR, LUNG, EmptyStr}

(* Graphs the builder makes: at most one entity, then at most MaxRelations *)
(* relation items, then possibly the curated neighbourhood of KRAS         *)
BuiltGraphs ==
    {add_relations(add_entities(EmptyGraph, e).G, r).G :
        e \in {<<>>} \cup {b \in EntityBatches(1) : b[1].item.kind = "str"},
        r \in {<<>>} \cup RelationBatches(MaxRelations)}

RankGraphs ==
    BuiltGraphs \cup {add_pathway_enrichment(G, PathwayData1, KRAS) : G \in BuiltGraphs}

(* seed -> X <- node: KRAS is declared, tumor and p53 come from relations *)
ChainGraph ==
    add_relations(
        add_entities(EmptyGraph, <<[etype |-> "Gene", item |-> StrItem(KRAS)]>>).G,
        <<[rel |-> "targets", item |-> StrongItem(KRAS, TUMOR)],
          [rel |-> "targets", item |-> PairItem(<<P53, TUMOR>>)]>>).G

LoopGraphs ==
    {EmptyGraph, ChainGraph, add_pathway_enrichment(ChainGraph, PathwayData1, KRAS)}

VariationAnswers ==
    {LlmFailure,
     LlmLines(<<>>),
     LlmLines(<<P53, <<" ">>, <<" ">> \o LUNG>>),
     LlmLines(<<P53, TUMOR, LUNG, KRAS>>)}

ReflectAnswers ==
    {ReflectFailure,
     ReflectJson([rationale |-> "enough"]),
     ReflectJson([next_query |-> EmptyStr, rationale |-> "nothing"]),
     ReflectJson([next_query |-> P53, rationale |-> "expand"]),
     ReflectJson([next_query |-> LUNG])}

(* RobustRanker.client and NeuroSymbolicLoop.client: the loop takes its    *)
(* own client, or else the ranker's                                        *)
ClientSettings ==
    {[ranker |-> r, loop |-> own \/ r] : r \in BOOLEAN, own \in BOOLEAN}

----------------------------------------------------------------------------
(* The rankers, called on a built graph *)

IdleKG ==
    /\ InitProc
    /\ ret = [op |-> "init"]
    /\ exc = FALSE
    /\ pathways = PathwayData1
    /\ ingested = 0
    /\ supplied = [x \in {} |-> 0]
    /\ relIns = [x \in {} |-> <<>>]
    /\ _layout_cache = NoLayoutCache._layout_cache
    /\ _layout_cache_key = NoLayoutCache._layout_cache_key


InitRank ==
    /\ \E G \in RankGraphs : nodes = G.nodes /\ edges = G.edges
    /\ IdleKG
    /\ query \in Queries
    /\ ranker_client \in BOOLEAN
    /\ loop_client = ranker_client
    /\ pc = "idle"
    /\ max_steps = 0
    /\ step = 0
    /\ current_query = EmptyStr
    /\ results = NoAttrs
    /\ cumulative_activations = NoAttrs
    /\ context = <<>>
    /\ events = <<>>
    /\ scored = <<>>
    /\ llm_failures = <<>>

Rank ==
    /\ pc = "idle"
    /\ ret.op = "init"
    /\ ret' = [op |-> "rank", value |-> rank(Graph, query)]
    /\ UNCHANGED <<nodes, edges, exc, pathways, procVars, ingested, supplied, relIns, tttVars, viewVars>>

RankRobust ==
    /\ pc = "idle"
    /\ ret.op = "init"
    /\ \E answer \in VariationAnswers :
         ret' = [op |-> "rank_robust",
                 value |-> rank_robust(Graph, ranker_client, query, answer),
                 variations |-> _generate_variations(ranker_client, query, answer)]
    /\ UNCHANGED <<nodes, edges, exc, pathways, procVars, ingested, supplied, relIns, tttVars, viewVars>>

Boost ==
    /\ pc = "idle"
    /\ ret.op \in {"rank", "rank_robust"}
    /\ LET r == boost_call(Graph, ret.value)
       IN  ret' = [op |-> "boost", value |-> r.returned, given |-> r.activations]
    /\ UNCHANGED <<nodes, edges, exc, pathways, procVars, ingested, supplied, relIns, tttVars, viewVars>>

NextRank == Rank \/ RankRobust \/ Boost

SpecRank == InitRank /\ [][NextRank]_vars

----------------------------------------------------------------------------
(* run_deep_think_stream, one action per resumption of the generator *)

InitLoop ==
    /\ \E G \in LoopGraphs : nodes = G.nodes /\ edges = G.edges
    /\ IdleKG
    /\ query = EmptyStr
    /\ \E c \in ClientSettings : ranker_client = c.ranker /\ loop_client = c.loop
    /\ pc = "idle"
    /\ max_steps = 0
    /\ step = 0
    /\ current_query = EmptyStr
    /\ results = NoAttrs
    /\ cumulative_activations = NoAttrs
    /\ context = <<>>
    /\ events = <<>>
    /\ scored = <<>>
    /\ llm_failures = <<>>

(* The call and the first resumption: up to the first yield *)
StartDeepThink ==
    /\ pc = "idle"
    /\ \E initial_query \in Queries, m \in 0..MaxSteps :
         /\ max_steps' = m
         /\ current_query' = initial_query
         /\ IF m > 0
            THEN /\ events' = <<StepStartEvent(1, initial_query)>>
                 /\ pc' = "step_start"
            ELSE /\ events' = <<ResultEvent(NoAttrs, <<>>)>>
                 /\ pc' = "result"
    /\ step' = 0
    /\ context' = <<>>
    /\ cumulative_activations' = NoAttrs
    /\ UNCHANGED <<kgVars, procVars, query, ranker_client, loop_client, results, scored,
                   llm_failures>>

(* Lines 410-413 *)
AnnounceRanking ==
    /\ pc = "step_start"
    /\ events' = Append(events, StatusEvent(step + 1, "ranking"))
    /\ pc' = "ranking"
    /\ UNCHANGED <<kgVars, procVars, query, ranker_client, loop_client, max_steps, step,
                   current_query, results, cumulative_activations, context, scored,
                   llm_failures>>

(* Lines 414-420 *)
RankRobustly ==
    /\ pc = "ranking"
    /\ \E answer \in VariationAnswers :
         /\ results' = rank_robust(Graph, ranker_client, current_query, answer)
         /\ llm_failures' =
                IF ranker_client /\ ~answer.ok
                THEN Append(llm_failures, [round |-> step + 1, call |-> "variations"])
                ELSE llm_failures
    /\ events' = Append(events, StatusEvent(step + 1, "boosting"))
    /\ pc' = "boosting"
    /\ UNCHANGED <<kgVars, procVars, query, ranker_client, loop_client, max_steps, step,
                   current_query, cumulative_activations, context, scored>>

(* Lines 421-431 *)
BoostAndMerge ==
    /\ pc = "boosting"
    /\ results' = boost_call(Graph, results).returned
    /\ cumulative_activations' = merge(cumulative_activations, results')
    /\ scored' = Append(scored, results')
    /\ events' = Append(events, StatusEvent(step + 1, "reflecting"))
    /\ pc' = "reflecting"
    /\ UNCHANGED <<kgVars, procVars, query, ranker_client, loop_client, max_steps, step,
                   current_query, context, llm_failures>>

(* Lines 432-454: the reflection, the trace record, and then the end of    *)
(* the loop, the next round, or the exception of the reflection            *)
Reflect ==
    /\ pc = "reflecting"
    /\ \E answer \in ReflectAnswers, top_nodes \in top_nodes_choices(results) :
         LET r == llm_reflect(loop_client, context, answer)
             trace == Append(context, [query |-> current_query,
                                       top_nodes |-> top_nodes,
                                       rationale |-> r.rationale])
         IN  IF r.raised
             THEN /\ pc' = "raised"
                  /\ exc' = TRUE
                  /\ UNCHANGED <<context, events, current_query, step, llm_failures>>
             ELSE /\ context' = trace
                  /\ llm_failures' =
                         IF loop_client /\ ~answer.ok
                         THEN Append(llm_failures,
                                     [round |-> step + 1, call |-> "reflection"])
                         ELSE llm_failures
                  /\ exc' = exc
                  /\ IF r.next_query = TERMINATE \/ r.next_query = EmptyStr
                     THEN /\ events' = Append(events, SaturatedEvent)
                          /\ pc' = "saturated"
                          /\ UNCHANGED <<current_query, step>>
                     ELSE /\ current_query' = r.next_query
                          /\ IF step + 1 < max_steps
                             THEN /\ step' = step + 1
                                  /\ events' = Append(events,
                                        StepStartEvent(step + 2, r.next_query))
                                  /\ pc' = "step_start"
                             ELSE /\ step' = step
                                  /\ events' = Append(events,
                                        ResultEvent(cumulative_activations, trace))
                                  /\ pc' = "result"
    /\ UNCHANGED <<nodes, edges, ret, pathways, procVars, ingested, supplied, relIns, query,
                   ranker_client, loop_client, max_steps, results,
                   cumulative_activations, scored, viewVars>>

(* Lines 447-454: after the break *)
EmitResult ==
    /\ pc = "saturated"
    /\ events' = Append(events, ResultEvent(cumulative_activations, context))
    /\ pc' = "result"
    /\ UNCHANGED <<kgVars, procVars, query, ranker_client, loop_client, max_steps, step,
                   current_query, results, cumulative_activations, context, scored,
                   llm_failures>>

(* The generator returns; run_deep_think hands back what it collected *)
Finish ==
    /\ pc = "result"
    /\ pc' = "done"
    /\ ret' = [op |-> "run_deep_think", value |-> run_deep_think(events)]
    /\ UNCHANGED <<nodes, edges, exc, pathways, procVars, ingested, supplied, relIns, query,
                   ranker_client, loop_client, max_steps, step, current_query,
                   results, cumulative_activations, context, events, scored,
                   llm_failures, viewVars>>

NextLoop ==
    \/ StartDeepThink
    \/ AnnounceRanking
    \/ RankRobustly
    \/ BoostAndMerge
    \/ Reflect
    \/ EmitResult
    \/ Finish

SpecLoop == InitLoop /\ [][NextLoop]_vars

----------------------------------------------------------------------------
(* The rankers called directly, and then a run of the loop, on one graph *)

(* KRAS declared, then given its curated neighbourhood: its successors are *)
(* of several categories                                                   *)
BridgeGraph ==
    add_pathway_enrichment(
        add_entities(EmptyGraph, <<[etype |-> "Gene", item |-> StrItem(KRAS)]>>).G,
        PathwayData1, KRAS)

InitFrame ==
    /\ nodes = BridgeGraph.nodes /\ edges = BridgeGraph.edges
    /\ IdleKG
    /\ query \in {KRAS, LUNG}
    /\ \E c \in ClientSettings : ranker_client = c.ranker /\ loop_client = c.loop
    /\ pc = "idle"
    /\ max_steps = 0
    /\ step = 0
    /\ current_query = EmptyStr
    /\ results = NoAttrs
    /\ cumulative_activations = NoAttrs
    /\ context = <<>>
    /\ events = <<>>
    /\ scored = <<>>
    /\ llm_failures = <<>>

SpecFrame == InitFrame /\ [][NextRank \/ NextLoop]_vars

----------------------------------------------------------------------------
(* Layout and serialisation of the builder's graph *)

Widths == {800, 400}

Heights == {600}

Paddings == {60}

LayoutCache == [_layout_cache |-> _layout_cache, _layout_cache_key |-> _layout_cache_key]

ComputeLayout ==
    /\ pc = "idle"
    /\ \E width \in Widths, height \in Heights, padding \in Paddings :
         LET r == compute_layout(Graph, LayoutCache, width, height, padding)
         IN  /\ _layout_cache' = r.cache._layout_cache
             /\ _layout_cache_key' = r.cache._layout_cache_key
             /\ ret' = [op |-> "compute_layout", value |-> r.value,
                        computed |-> r.computed,
                        width |-> width, height |-> height, padding |-> padding]
    /\ exc' = FALSE
    /\ UNCHANGED <<nodes, edges, pathways, procVars, ingested, supplied, relIns, tttVars>>

Serialise ==
    /\ pc = "idle"
    /\ \E width \in Widths, height \in Heights :
         LET r == serialise(Graph, LayoutCache, width, height)
         IN  /\ _layout_cache' = r.cache._layout_cache
             /\ _layout_cache_key' = r.cache._layout_cache_key
             /\ ret' = [op |-> "serialise", value |-> r.value]
    /\ exc' = FALSE
    /\ UNCHANGED <<nodes, edges, pathways, procVars, ingested, supplied, relIns, tttVars>>

(* Relations are added and the graph is serialised, in any order *)
SpecView == InitKG /\ [][AddRelations \/ Serialise]_vars

(* Relations are added and the graph is laid out, in any order *)
SpecLayout == InitKG /\ [][AddRelations \/ ComputeLayout]_vars

----------------------------------------------------------------------------
(* A builder that was never populated: its graph is serialised, ranked and *)
(* given to the loop                                                       *)

InitEmpty ==
    /\ nodes = EmptyGraph.nodes /\ edges = EmptyGraph.edges
    /\ IdleKG
    /\ query \in Queries
    /\ \E c \in ClientSettings : ranker_client = c.ranker /\ loop_client = c.loop
    /\ pc = "idle"
    /\ max_steps = 0
    /\ step = 0
    /\ current_query = EmptyStr
    /\ results = NoAttrs
    /\ cumulative_activations = NoAttrs
    /\ context = <<>>
    /\ events = <<>>
    /\ scored = <<>>
    /\ llm_failures = <<>>

SpecEmpty ==
    InitEmpty /\ [][Serialise \/ ComputeLayout \/ NextRank \/ NextLoop]_vars

----------------------------------------------------------------------------
(* ark.py: OncoGraph.build_from_query *)

EGFR == <<"E","G","F","R">>

TP53 == <<"T","P","5","3">>

STK11 == <<"S","T","K","1","1">>

YAP1 == <<"Y","A","P","1">>

LUNG_ADENOCARCINOMA ==
    <<"L","u","n","g"," ","A","d","e","n","o","c","a","r","c","i","n","o","m","a">>

MELANOMA == <<"M","e","l","a","n","o","m","a">>

IsWordChar(c) == IsAlphaChar(c) \/ IsDigitChar(c) \/ c = "_"

(* re.search(r"\b([A-Z][A-Z0-9]{2,7})\b", text): the leftmost run of 3 to  *)
(* 8 capitals and digits that starts with a capital and stands between     *)
(* word boundaries; EmptyStr stands for None                               *)
regex_gene(text) ==
    LET matches(i, n) ==
            /\ i + n - 1 <= Len(text)
            /\ IsUpperChar(text[i])
            /\ \A j \in (i + 1)..(i + n - 1) :
                   IsUpperChar(text[j]) \/ IsDigitChar(text[j])
            /\ i = 1 \/ ~IsWordChar(text[i - 1])
            /\ i + n - 1 = Len(text) \/ ~IsWordChar(text[i + n])
        starts == {i \in 1..Len(text) : \E n \in 3..8 : matches(i, n)}
    IN  IF starts = {} THEN EmptyStr
        ELSE LET i == CHOOSE x \in starts : \A y \in starts : x <= y
                 n == CHOOSE m \in 3..8 : matches(i, m)
             IN  SubSeq(text, i, i + n - 1)

(* entities.get("gene", []): the items under the key "gene", in order *)
RECURSIVE gene_items(_, _)
gene_items(entities, i) ==
    IF i > Len(entities) THEN <<>>
    ELSE IF entities[i].etype = "gene"
    THEN <<entities[i].item>> \o gene_items(entities, i + 1)
    ELSE gene_items(entities, i + 1)

(* The extraction build_from_query keeps, or None *)
NoExtraction == [ok |-> FALSE]

(* OpenTargetsClient.search_entity: the top hit, or None *)
NoHit == [hit |-> FALSE]

Hit(id, name, entity) == [hit |-> TRUE, id |-> id, name |-> name, entity |-> entity]

(* max(genes, key=confidence of a dict, else 0): the first item of the     *)
(* largest key; then its text. `raised` when the best item is neither a    *)
(* str nor a dict                                                          *)
_pick_seed_gene(last_extraction, query_text) ==
    LET genes == IF last_extraction.ok
                 THEN gene_items(last_extraction.entities, 1) ELSE <<>>
        key(g) == IF g.kind = "dict" THEN Get(g.d, "confidence", 0) ELSE 0
    IN  IF genes # <<>>
        THEN LET b == CHOOSE i \in 1..Len(genes) :
                          /\ \A j \in 1..Len(genes) : key(genes[j]) <= key(genes[i])
                          /\ \A j \in 1..(i - 1) : key(genes[j]) < key(genes[i])
                 best == genes[b]
             IN  IF best.kind = "str" THEN [value |-> best.text, raised |-> FALSE]
                 ELSE IF best.kind = "dict"
                 THEN [value |-> Get(best.d, "text", EmptyStr), raised |-> FALSE]
                 ELSE [value |-> EmptyStr, raised |-> TRUE]
        ELSE [value |-> regex_gene(query_text), raised |-> FALSE]

mock_entities ==
    <<[etype |-> "gene", item |-> DictItem([text |-> KRAS, confidence |-> 9500])],
      [etype |-> "gene", item |-> DictItem([text |-> EGFR, confidence |-> 9000])],
      [etype |-> "gene", item |-> DictItem([text |-> TP53, confidence |-> 8800])],
      [etype |-> "gene", item |-> DictItem([text |-> STK11, confidence |-> 8500])],
      [etype |-> "gene", item |-> DictItem([text |-> YAP1, confidence |-> 8000])],
      [etype |-> "disease",
       item |-> DictItem([text |-> LUNG_ADENOCARCINOMA, confidence |-> 9200])],
      [etype |-> "disease",
       item |-> DictItem([text |-> MELANOMA, confidence |-> 7800])]>>

mock_relations ==
    <<[rel |-> "drives", item |-> PairItem(<<KRAS, LUNG_ADENOCARCINOMA>>)],
      [rel |-> "drives", item |-> PairItem(<<STK11, LUNG_ADENOCARCINOMA>>)],
      [rel |-> "associated_with", item |-> PairItem(<<EGFR, LUNG_ADENOCARCINOMA>>)],
      [rel |-> "associated_with", item |-> PairItem(<<TP53, LUNG_ADENOCARCINOMA>>)]>>

_load_mock_data(G, data) ==
    LET G1 == add_entities(G, mock_entities).G
        G2 == add_relations(G1, mock_relations).G
    IN  add_pathway_enrichment(add_pathway_enrichment(G2, data, KRAS), data, STK11)

(* Lines 230-238: the other genes of the extraction are enriched *)
RECURSIVE enrich_extracted_genes(_, _, _, _, _)
enrich_extracted_genes(G, data, genes, seed_name, i) ==
    IF i > Len(genes) THEN G
    ELSE LET gname == entity_text(genes[i])
         IN  enrich_extracted_genes(
                 IF gname # EmptyStr /\ gname # seed_name
                 THEN add_pathway_enrichment(G, data, gname) ELSE G,
                 data, genes, seed_name, i + 1)

(* Phase 1 (lines 187-204): the extraction and its ingest, any exception   *)
(* of which is caught; `extraction` is what extract_all returns, or        *)
(* NoExtraction when it raises                                             *)
ingest_extraction(extraction) ==
    IF ~extraction.ok
    THEN [G |-> EmptyGraph, last_extraction |-> NoExtraction]
    ELSE LET e == add_entities(EmptyGraph, extraction.entities)
             r == add_relations(e.G, extraction.relations)
         IN  IF r.raised
             THEN [G |-> r.G, last_extraction |-> NoExtraction]
             ELSE [G |-> r.G, last_extraction |-> extraction]

(* Lines 213-228: the seed, its associations and, for a gene, its curated  *)
(* enrichment                                                              *)
add_seed_content(G, data, seed_entity, neighbors) ==
    LET seed_type == IF seed_entity.entity = "target" THEN "Gene" ELSE "Disease"
        G1 == add_opentargets_associations(G, seed_entity.name, seed_type, neighbors)
    IN  IF seed_type = "Gene"
        THEN add_pathway_enrichment(G1, data, seed_entity.name)
        ELSE G1

(* Lines 213-238: what is done when search_entity has a hit *)
enrich_hit(G, data, last_extraction, seed_entity, neighbors) ==
    enrich_extracted_genes(add_seed_content(G, data, seed_entity, neighbors), data,
                           IF last_extraction.ok
                           THEN gene_items(last_extraction.entities, 1) ELSE <<>>,
                           seed_entity.name, 1)

(* Phases 2 and 3 (lines 206-244) on the graph phase 1 left *)
enrich(G, data, last_extraction, seed_entity, neighbors) ==
    IF seed_entity.hit
    THEN enrich_hit(G, data, last_extraction, seed_entity, neighbors)
    ELSE IF number_of_nodes(G) = 0
    THEN _load_mock_data(G, data)
    ELSE G

(* Lines 175-247. `data` is the curated tables; `extraction`, `seed_entity` *)
(* and `neighbors` are what the collaborators answer. The result is the    *)
(* graph of the fresh builder, the extraction kept, the string searched    *)
(* for, and whether an exception left the call                             *)
build_from_query(data, query_text, extraction, seed_entity, neighbors) ==
    LET p1 == ingest_extraction(extraction)
        seed_gene == _pick_seed_gene(p1.last_extraction, query_text)
    IN  [G |-> IF seed_gene.raised THEN p1.G
               ELSE enrich(p1.G, data, p1.last_extraction, seed_entity, neighbors),
         raised |-> seed_gene.raised,
         last_extraction |-> p1.last_extraction,
         searched |-> IF seed_gene.value # EmptyStr THEN seed_gene.value
                      ELSE query_text]

(* What the collaborators can answer *)
BuildQueries == {KRAS, KRAS_TUMOR}

ExtractedEntityEntries ==
    {[etype |-> "gene", item |-> StrItem(KRAS)],
     [etype |-> "gene", item |-> DictItem([text |-> P53, confidence |-> HighConfidence])],
     [etype |-> "disease", item |-> StrItem(TUMOR)]}

ExtractedEntities ==
    {<<>>} \cup {b \in Batches(ExtractedEntityEntries, MaxRelations) :
                    Grouped(b, EntityKey)}

ExtractedRelations ==
    {<<>>,
     <<[rel |-> "targets", item |-> PairItem(<<KRAS, TUMOR>>)]>>,
     <<[rel |-> "targets", item |-> PairItem(<<P53, TUMOR>>)],
       [rel |-> "targets", item |-> DictItem([head |-> OtherItem, tail |-> StrItem(TUMOR)])]>>}

Extractions ==
    {NoExtraction}
      \cup {[ok |-> TRUE, entities |-> e, relations |-> r] :
                e \in ExtractedEntities, r \in ExtractedRelations}

SeedEntities ==
    {NoHit, Hit("ENSG00000133703", KRAS, "target"), Hit("EFO_0000616", TUMOR, "disease")}

(* One OncoGraph builds once: main.py makes one per request *)
BuildFromQuery ==
    /\ pc = "idle"
    /\ ret.op = "init"
    /\ \E query_text \in BuildQueries, extraction \in Extractions,
          seed_entity \in SeedEntities,
          neighbors \in NeighborLists(MaxRelations - 1) :
         /\ seed_entity.hit \/ neighbors = <<>>
         /\ LET r == build_from_query(pathways, query_text, extraction,
                                      seed_entity, neighbors)
            IN  /\ nodes' = r.G.nodes
                /\ edges' = r.G.edges
                /\ exc' = r.raised
                /\ ret' = [op |-> "build_from_query",
                           query_text |-> query_text,
                           extraction |-> extraction,
                           seed_entity |-> seed_entity,
                           neighbors |-> neighbors,
                           last_extraction |-> r.last_extraction,
                           searched |-> r.searched]
    /\ _layout_cache' = NoLayoutCache._layout_cache
    /\ _layout_cache_key' = NoLayoutCache._layout_cache_key
    /\ UNCHANGED <<pathways, procVars, ingested, supplied, relIns, tttVars>>

SpecBuild == InitKG /\ [][BuildFromQuery]_vars

----------------------------------------------------------------------------
(* entity_extraction.py: ExtractionCache *)

(* ExtractionCache(max_size=2), as the eviction tests construct it *)
max_size == 2

(* ExtractionCacheEntry.ttl, with the clock counted in units of the ttl *)
ttl == 1

(* The clock stops after this many ticks *)
MaxClock == 2

(* OrderedDict: a sequence of [key, entry], oldest first *)
od_index(od, key) == CHOOSE i \in 1..Len(od) : od[i].key = key

od_contains(od, key) == \E i \in 1..Len(od) : od[i].key = key

od_getitem(od, key) == od[od_index(od, key)].entry

(* del od[key] *)
od_delitem(od, key) == SelectSeq(od, LAMBDA e : e.key # key)

(* od[key] = entry: a present key keeps its place, a new one goes last *)
od_setitem(od, key, entry) ==
    IF od_contains(od, key)
    THEN [i \in 1..Len(od) |->
             IF od[i].key = key THEN [key |-> key, entry |-> entry] ELSE od[i]]
    ELSE Append(od, [key |-> key, entry |-> entry])

(* Mutant of move_to_end: the entry stays where it is *)
move_to_end_in_place(od, key) == od

(* od.move_to_end(key) *)
move_to_end(od, key) ==
    Append(od_delitem(od, key), [key |-> key, entry |-> od_getitem(od, key)])

(* od.popitem(last=False): the dict without its first item *)
popitem_first(od) == Tail(od)

(* ExtractionCacheEntry.is_expired at time `now` *)
is_expired(entry, now) == (now - entry.timestamp) > entry.ttl

(* f"{mode}:{sha256(text.strip().lower())}", the digest standing for the   *)
(* normalised text it is computed from                                     *)
_make_key(text, mode) == <<mode, Lower(strip(text))>>

(* The history of uses: key made the most recent, or forgotten *)
used(order, key) == Append(SelectSeq(order, LAMBDA k : k # key), key)

forgotten(order, key) == SelectSeq(order, LAMBDA k : k # key)

(* Texts and modes the threads call the cache with *)
CacheTexts == {<<"a">>, <<" ", "A">>, <<"b">>, <<"c">>}

CacheModes == {"e"}

(* get, line 101: the key is made before the lock is taken *)
CacheGet(t) ==
    /\ thread[t].pc = "idle"
    /\ \E text \in CacheTexts, mode \in CacheModes :
         thread' = [thread EXCEPT ![t] =
                       [pc |-> "get_lock", key |-> _make_key(text, mode)]]
    /\ UNCHANGED <<kgVars, tttVars, cache, _lock, clock, recent, evicted,
                   _instance, _instance_lock, constructed>>

(* set, line 115 *)
CacheSet(t) ==
    /\ thread[t].pc = "idle"
    /\ \E text \in CacheTexts, mode \in CacheModes :
         thread' = [thread EXCEPT ![t] =
                       [pc |-> "set_lock", key |-> _make_key(text, mode),
                        result |-> text]]
    /\ UNCHANGED <<kgVars, tttVars, cache, _lock, clock, recent, evicted,
                   _instance, _instance_lock, constructed>>

(* with self._lock: entered when no thread holds the lock *)
CacheAcquire(t) ==
    /\ thread[t].pc \in {"get_lock", "set_lock"}
    /\ _lock = None
    /\ _lock' = t
    /\ thread' = [thread EXCEPT ![t].pc =
                     IF thread[t].pc = "get_lock" THEN "get_body" ELSE "set_assign"]
    /\ UNCHANGED <<kgVars, tttVars, cache, clock, recent, evicted,
                   _instance, _instance_lock, constructed>>

(* get, lines 103-112, under the lock *)
CacheGetBody(t) ==
    /\ thread[t].pc = "get_body"
    /\ _lock = t
    /\ LET key == thread[t].key
       IN  IF od_contains(cache, key)
           THEN LET entry == od_getitem(cache, key)
                IN  IF ~is_expired(entry, clock)
                    THEN /\ cache' = move_to_end(cache, key)
                         /\ recent' = used(recent, key)
                         /\ thread' = [thread EXCEPT ![t] =
                                [pc |-> "get_exit", key |-> key,
                                 value |-> entry.result,
                                 timestamp |-> entry.timestamp,
                                 read_at |-> clock]]
                    ELSE /\ cache' = od_delitem(cache, key)
                         /\ recent' = forgotten(recent, key)
                         /\ thread' = [thread EXCEPT ![t] =
                                [pc |-> "get_exit", key |-> key, value |-> None]]
           ELSE /\ thread' = [thread EXCEPT ![t] =
                                [pc |-> "get_exit", key |-> key, value |-> None]]
                /\ UNCHANGED <<cache, recent>>
    /\ UNCHANGED <<kgVars, tttVars, _lock, clock, evicted,
                   _instance, _instance_lock, constructed>>

(* set, line 117 *)
CacheSetAssign(t) ==
    /\ thread[t].pc = "set_assign"
    /\ _lock = t
    /\ cache' = od_setitem(cache, thread[t].key,
                           [result |-> thread[t].result, timestamp |-> clock,
                            ttl |-> ttl])
    /\ recent' = used(recent, thread[t].key)
    /\ thread' = [thread EXCEPT ![t].pc = "set_move"]
    /\ UNCHANGED <<kgVars, tttVars, _lock, clock, evicted,
                   _instance, _instance_lock, constructed>>

(* set, line 118 *)
CacheSetMoveToEnd(t) ==
    /\ thread[t].pc = "set_move"
    /\ _lock = t
    /\ cache' = move_to_end(cache, thread[t].key)
    /\ thread' = [thread EXCEPT ![t].pc = "set_evict"]
    /\ UNCHANGED <<kgVars, tttVars, _lock, clock, recent, evicted,
                   _instance, _instance_lock, constructed>>

(* set, lines 119-120: one turn of the while loop *)
CacheSetEvict(t) ==
    /\ thread[t].pc = "set_evict"
    /\ _lock = t
    /\ IF Len(cache) > max_size
       THEN /\ cache' = popitem_first(cache)
            /\ evicted' = [op |-> "set", key |-> cache[1].key, lru |-> recent[1]]
            /\ recent' = forgotten(recent, cache[1].key)
            /\ UNCHANGED thread
       ELSE /\ thread' = [thread EXCEPT ![t].pc = "set_exit"]
            /\ UNCHANGED <<cache, evicted, recent>>
    /\ UNCHANGED <<kgVars, tttVars, _lock, clock,
                   _instance, _instance_lock, constructed>>

(* Leaving the with block: the lock is released and the call returns *)
CacheRelease(t) ==
    /\ thread[t].pc \in {"get_exit", "set_exit"}
    /\ _lock = t
    /\ _lock' = None
    /\ thread' = [thread EXCEPT ![t] = Idle]
    /\ UNCHANGED <<kgVars, tttVars, cache, clock, recent, evicted,
                   _instance, _instance_lock, constructed>>

(* Time passes *)
Tick ==
    /\ clock < MaxClock
    /\ clock' = clock + 1
    /\ UNCHANGED <<kgVars, tttVars, cache, _lock, thread, recent, evicted,
                   _instance, _instance_lock, constructed>>

NextCache ==
    \/ \E t \in Threads : CacheGet(t)
    \/ \E t \in Threads : CacheSet(t)
    \/ \E t \in Threads : CacheAcquire(t)
    \/ \E t \in Threads : CacheGetBody(t)
    \/ \E t \in Threads : CacheSetAssign(t)
    \/ \E t \in Threads : CacheSetMoveToEnd(t)
    \/ \E t \in Threads : CacheSetEvict(t)
    \/ \E t \in Threads : CacheRelease(t)
    \/ Tick

(* No graph built, no ranking run, nothing cached *)
InitIdle ==
    /\ nodes = EmptyGraph.nodes /\ edges = EmptyGraph.edges
    /\ IdleKG
    /\ InitTTT

SpecCache == InitIdle /\ [][NextCache]_vars

----------------------------------------------------------------------------
(* entity_extraction.py: _GLiNER2Singleton.get and get_extractor *)

(* Mutant of is_none: the check under the lock is left out *)
is_none_unchecked(instance) == TRUE

(* `cls._instance is None` under the lock (the double check) *)
is_none(instance) == instance = None

(* The object a construction makes: a new one each time *)
new_instance(s) == <<s, Cardinality(constructed[s]) + 1>>

(* Constructions that can raise: loading the model *)
CanFail == {"model"}

(* A thread calls _GLiNER2Singleton.get() or get_extractor() *)
SingletonCall(t) ==
    /\ thread[t].pc = "idle"
    /\ \E s \in Singletons :
         thread' = [thread EXCEPT ![t] = [pc |-> "first_check", s |-> s]]
    /\ UNCHANGED <<kgVars, tttVars, cache, _lock, clock, recent, evicted,
                   _instance, _instance_lock, constructed>>

(* if cls._instance is None, read without the lock *)
SingletonFirstCheck(t) ==
    /\ thread[t].pc = "first_check"
    /\ thread' = [thread EXCEPT ![t].pc =
                     IF _instance[thread[t].s] = None THEN "lock" ELSE "return"]
    /\ UNCHANGED <<kgVars, tttVars, cache, _lock, clock, recent, evicted,
                   _instance, _instance_lock, constructed>>

(* with cls._lock *)
SingletonAcquire(t) ==
    /\ thread[t].pc = "lock"
    /\ _instance_lock[thread[t].s] = None
    /\ _instance_lock' = [_instance_lock EXCEPT ![thread[t].s] = t]
    /\ thread' = [thread EXCEPT ![t].pc = "second_check"]
    /\ UNCHANGED <<kgVars, tttVars, cache, _lock, clock, recent, evicted,
                   _instance, constructed>>

(* if cls._instance is None, under the lock *)
SingletonSecondCheck(t) ==
    /\ thread[t].pc = "second_check"
    /\ thread' = [thread EXCEPT ![t].pc =
                     IF is_none(_instance[thread[t].s])
                     THEN "construct" ELSE "unlock"]
    /\ UNCHANGED <<kgVars, tttVars, cache, _lock, clock, recent, evicted,
                   _instance, _instance_lock, constructed>>

(* cls._instance = GLiNER2.from_pretrained(...) / OncologyEntityExtractor() *)
SingletonConstruct(t) ==
    /\ thread[t].pc = "construct"
    /\ LET s == thread[t].s
       IN  /\ _instance' = [_instance EXCEPT ![s] = new_instance(s)]
           /\ constructed' = [constructed EXCEPT ![s] = @ \cup {new_instance(s)}]
    /\ thread' = [thread EXCEPT ![t].pc = "unlock"]
    /\ UNCHANGED <<kgVars, tttVars, cache, _lock, clock, recent, evicted,
                   _instance_lock>>

(* The construction raises: the with block releases the lock and the       *)
(* exception reaches the caller                                            *)
SingletonConstructRaises(t) ==
    /\ thread[t].pc = "construct"
    /\ thread[t].s \in CanFail
    /\ _instance_lock' = [_instance_lock EXCEPT ![thread[t].s] = None]
    /\ thread' = [thread EXCEPT ![t] = [pc |-> "raised", s |-> thread[t].s]]
    /\ UNCHANGED <<kgVars, tttVars, cache, _lock, clock, recent, evicted,
                   _instance, constructed>>

(* Leaving the with block *)
SingletonRelease(t) ==
    /\ thread[t].pc = "unlock"
    /\ _instance_lock' = [_instance_lock EXCEPT ![thread[t].s] = None]
    /\ thread' = [thread EXCEPT ![t].pc = "return"]
    /\ UNCHANGED <<kgVars, tttVars, cache, _lock, clock, recent, evicted,
                   _instance, constructed>>

(* return cls._instance *)
SingletonReturn(t) ==
    /\ thread[t].pc = "return"
    /\ thread' = [thread EXCEPT ![t] =
                     [pc |-> "returned", s |-> thread[t].s,
                      value |-> _instance[thread[t].s]]]
    /\ UNCHANGED <<kgVars, tttVars, cache, _lock, clock, recent, evicted,
                   _instance, _instance_lock, constructed>>

(* The caller goes on with what it got *)
SingletonDone(t) ==
    /\ thread[t].pc \in {"returned", "raised"}
    /\ thread' = [thread EXCEPT ![t] = Idle]
    /\ UNCHANGED <<kgVars, tttVars, cache, _lock, clock, recent, evicted,
                   _instance, _instance_lock, constructed>>

NextSingleton ==
    \/ \E t \in Threads : SingletonCall(t)
    \/ \E t \in Threads : SingletonFirstCheck(t)
    \/ \E t \in Threads : SingletonAcquire(t)
    \/ \E t \in Threads : SingletonSecondCheck(t)
    \/ \E t \in Threads : SingletonConstruct(t)
    \/ \E t \in Threads : SingletonConstructRaises(t)
    \/ \E t \in Threads : SingletonRelease(t)
    \/ \E t \in Threads : SingletonReturn(t)
    \/ \E t \in Threads : SingletonDone(t)

SpecSingleton == InitIdle /\ [][NextSingleton]_vars

----------------------------------------------------------------------------
(* orchestrator.py: SemanticCache *)

CANCER == <<"c", "a", "n", "c", "e", "r">>

(* 'KRAS lung cancer', 'KRAS lung' and 'KRAS-lung' *)
KRAS_LUNG == KRAS \o <<" ">> \o LUNG

KRAS_LUNG_CANCER == KRAS_LUNG \o <<" ">> \o CANCER

KRAS_HYPHEN_LUNG == KRAS \o <<"-">> \o LUNG

(* CacheEntry.ttl_seconds as the callers pass it, in units of the clock *)
ttl_seconds == 1

(* json.dumps(params, sort_keys=True).lower(): the name and lowered value *)
(* of every parameter, whatever order the caller gave them in (the names   *)
(* are lower case already)                                                 *)
dumps_lower(params) ==
    {<<k, SubSeq(Lower(params[k]), 1, Len(params[k]))>> : k \in DOMAIN params}

(* f"{tool}:{md5(...)}", the digest standing for the text it is made from *)
_normalize_key(tool, params) == [tool |-> tool, digest |-> dumps_lower(params)]

(* cached_key.startswith(f"{tool}:"), for tool names that hold no colon *)
startswith_tool(cached_key, tool) == cached_key.tool = tool

(* v.lower().replace("-", " ").replace("_", " ") *)
delimiters_to_space(v) ==
    [i \in 1..Len(v) |-> IF v[i] \in {"-", "_"} THEN " " ELSE LowerChar(v[i])]

(* _extract_keywords: the words of every string value *)
_extract_keywords(params) ==
    UNION {{Split(delimiters_to_space(params[k]))[i] :
                i \in 1..Len(Split(delimiters_to_space(params[k])))} :
           k \in DOMAIN params}

(* Parameters of the calls, and the tool and parameters of each call *)
ParamSets == {[query |-> v] : v \in {KRAS_LUNG_CANCER, KRAS_LUNG, KRAS_HYPHEN_LUNG}}

SemanticCalls ==
    ({"search_literature"} \X ParamSets)
        \cup {<<"get_drug_targets", [query |-> KRAS_LUNG]>>}

(* _extract_keywords on the parameters in use, computed once *)
Keywords == {<<p, _extract_keywords(p)>> : p \in ParamSets}

(* _normalize_key on the calls in use, computed once *)
NormalizedKeys == {<<c, _normalize_key(c[1], c[2])>> : c \in SemanticCalls}

normalized_key(tool, params) ==
    IF <<tool, params>> \in SemanticCalls
    THEN (CHOOSE e \in NormalizedKeys : e[1] = <<tool, params>>)[2]
    ELSE _normalize_key(tool, params)

keywords_of(params) ==
    IF params \in ParamSets
    THEN (CHOOSE e \in Keywords : e[1] = params)[2]
    ELSE _extract_keywords(params)

(* CacheEntry.is_expired: datetime.now() > timestamp + ttl_seconds *)
entry_is_expired(entry, now) == now > entry.timestamp + entry.ttl_seconds

(* score = intersection / union; score > 0.8 *)
similar(query_keywords, cached_keywords) ==
    LET intersection == Cardinality(query_keywords \cap cached_keywords)
        union == Cardinality(query_keywords \cup cached_keywords)
    IN  union > 0 /\ 5 * intersection > 4 * union

(* score of item i is greater than the score of item j *)
score_greater(od, query_keywords, i, j) ==
    LET ki == keywords_of(Get(od[i].entry.data, "_params", NoAttrs))
        kj == keywords_of(Get(od[j].entry.data, "_params", NoAttrs))
    IN  Cardinality(query_keywords \cap ki) * Cardinality(query_keywords \cup kj)
          > Cardinality(query_keywords \cap kj) * Cardinality(query_keywords \cup ki)

(* The items the fuzzy loop does not skip and finds similar enough *)
fuzzy_candidates(od, tool, params, now) ==
    {i \in 1..Len(od) :
        /\ ~entry_is_expired(od[i].entry, now)
        /\ startswith_tool(od[i].key, tool)
        /\ keywords_of(Get(od[i].entry.data, "_params", NoAttrs)) # {}
        /\ similar(keywords_of(params),
                   keywords_of(Get(od[i].entry.data, "_params", NoAttrs)))}

(* best_match: the first item of the highest score, 0 when there is none *)
best_match(od, tool, params, now) ==
    LET c == fuzzy_candidates(od, tool, params, now)
    IN  IF c = {} THEN 0
        ELSE CHOOSE i \in c :
                 \A j \in c \ {i} :
                     \/ score_greater(od, keywords_of(params), i, j)
                     \/ /\ ~score_greater(od, keywords_of(params), j, i)
                        /\ i < j

(* SemanticCache.get: the value returned, the cache left, the kind of hit  *)
(* and the key of the entry returned                                       *)
semantic_get(od, tool, params, fuzzy, now) ==
    LET key == normalized_key(tool, params)
        exact == od_contains(od, key) /\ ~entry_is_expired(od_getitem(od, key), now)
        od1 == IF od_contains(od, key) /\ ~exact THEN od_delitem(od, key) ELSE od
        b == IF fuzzy THEN best_match(od1, tool, params, now) ELSE 0
    IN  IF exact
        THEN [value |-> od_getitem(od, key).data, cache |-> move_to_end(od, key),
              hit |-> "exact", key |-> key]
        ELSE IF b # 0
        THEN [value |-> od1[b].entry.data, cache |-> od1, hit |-> "fuzzy",
              key |-> od1[b].key]
        ELSE [value |-> None, cache |-> od1, hit |-> "miss", key |-> key]

(* data.copy() with data_with_meta["_params"] = params *)
data_with_meta(data, params) == SetAttr(data, "_params", params)

(* SemanticCache.set up to the eviction loop *)
semantic_set(od, tool, params, data, ttl_arg, now) ==
    od_setitem(od, normalized_key(tool, params),
               [data |-> data_with_meta(data, params), timestamp |-> now,
                ttl_seconds |-> ttl_arg])

(* while len(self.cache) > self.max_size: self.cache.popitem(last=False) *)
RECURSIVE evict_oldest(_)
evict_oldest(od) ==
    IF Len(od) > max_size THEN evict_oldest(popitem_first(od)) ELSE od

Papers == [papers |-> <<>>]

SemanticGet ==
    /\ \A t \in Threads : thread[t].pc = "idle"
    /\ \E call \in SemanticCalls, fuzzy \in BOOLEAN :
         LET tool == call[1]
             params == call[2]
             r == semantic_get(cache, tool, params, fuzzy, clock)
         IN  /\ cache' = r.cache
             /\ recent' = IF r.hit = "miss"
                          THEN forgotten(recent, r.key)
                          ELSE IF r.hit = "fuzzy"
                          THEN used(forgotten(recent, normalized_key(tool, params)),
                                    r.key)
                          ELSE used(recent, r.key)
             /\ ret' = [op |-> "semantic_get", tool |-> tool, params |-> params,
                        fuzzy |-> fuzzy, value |-> r.value, hit |-> r.hit,
                        key |-> r.key]
    /\ UNCHANGED <<nodes, edges, exc, pathways, ingested, supplied, relIns,
                   viewVars, tttVars, _lock, clock, thread, evicted,
                   _instance, _instance_lock, constructed>>

SemanticSet ==
    /\ \A t \in Threads : thread[t].pc = "idle"
    /\ \E call \in SemanticCalls :
         LET tool == call[1]
             params == call[2]
             od == semantic_set(cache, tool, params, Papers, ttl_seconds, clock)
             key == normalized_key(tool, params)
         IN  /\ cache' = evict_oldest(od)
             /\ recent' = IF Len(od) > max_size
                          THEN forgotten(used(recent, key), od[1].key)
                          ELSE used(recent, key)
             /\ evicted' = IF Len(od) > max_size
                           THEN [op |-> "semantic_set", key |-> od[1].key,
                                 lru |-> used(recent, key)[1]]
                           ELSE evicted
             /\ ret' = [op |-> "semantic_set", tool |-> tool, params |-> params]
    /\ UNCHANGED <<nodes, edges, exc, pathways, ingested, supplied, relIns,
                   viewVars, tttVars, _lock, clock, thread,
                   _instance, _instance_lock, constructed>>

SpecSemantic == InitIdle /\ [][SemanticGet \/ SemanticSet \/ Tick]_vars

----------------------------------------------------------------------------
(* ttt.py: CrossDomainBooster.boost on maps given directly *)

(* Scores below, at and above the floor of 0.05 *)
BoostScores == {boost_threshold - 1, boost_threshold, Unit}

(* Maps over KRAS (successors of several categories), HYPOXIA (its one     *)
(* successor is KRAS), CASCADE (no successor) and p53 (not in the graph)   *)
ActivationMaps ==
    UNION {[S -> BoostScores] : S \in SUBSET {KRAS, HYPOXIA, CASCADE, P53}}

InitBoost ==
    /\ nodes = BridgeGraph.nodes /\ edges = BridgeGraph.edges
    /\ IdleKG
    /\ InitTTT

BoostGiven ==
    /\ pc = "idle"
    /\ \E activations \in ActivationMaps :
         LET r == boost_call(Graph, activations)
         IN  ret' = [op |-> "boost", value |-> r.returned, given |-> r.activations]
    /\ UNCHANGED <<nodes, edges, exc, pathways, procVars, ingested, supplied,
                   relIns, tttVars, viewVars>>

SpecBoost == InitBoost /\ [][BoostGiven]_vars

----------------------------------------------------------------------------
(* Claims on the graph assembler *)

HasAttr(attrs, k) == k \in DOMAIN attrs

SameAttr(a, b, k) == /\ HasAttr(a, k) <=> HasAttr(b, k)
                     /\ HasAttr(a, k) => a[k] = b[k]

(* C1: under any sequence of the four ingest operations, a node that exists *)
(* stays, its confidence never decreases, and its type and source stay     *)
(* those it was first inserted with.                                       *)
C1_NodeMergeMonotone ==
    [][\A n \in DOMAIN nodes :
          /\ n \in DOMAIN nodes'
          /\ HasAttr(nodes[n], "confidence")
                => /\ HasAttr(nodes'[n], "confidence")
                   /\ nodes'[n].confidence >= nodes[n].confidence
          /\ SameAttr(nodes[n], nodes'[n], "type")
          /\ SameAttr(nodes[n], nodes'[n], "source")]_vars

(* A node auto-created by add_relations (confidence 0.5, source inferred)  *)
(* was re-inserted by add_entities with a higher confidence                *)
C1_Witness ==
    \E n \in DOMAIN nodes :
        /\ HasAttr(nodes[n], "source") /\ nodes[n].source = "inferred"
        /\ nodes[n].confidence = HighConfidence
        /\ ret.op = "add_entities"

(* C2 (as claimed): a pair inserted twice through add_relations with       *)
(* different weights has one edge, whose weight is the larger of the two   *)
(* (to the three decimals the builder keeps) and whose relation and label  *)
(* are those of the insertion that carried the larger weight.              *)
C2_EdgeFollowsStrongerInsertion ==
    \A p \in DOMAIN relIns :
        (Len(relIns[p]) = 2 /\ relIns[p][1].weight # relIns[p][2].weight)
          => LET hi == IF relIns[p][1].weight > relIns[p][2].weight
                       THEN relIns[p][1] ELSE relIns[p][2]
             IN  /\ p \in DOMAIN edges
                 /\ Round3(edges[p].weight) = Round3(hi.weight)
                 /\ edges[p].relation = hi.rel
                 /\ edges[p].label =
                        Get(EDGE_LABELS, hi.rel, UnderscoreToSpace(hi.rel))

(* C3: under add_entities alone, every text given has exactly one node,    *)
(* whose confidence is the highest confidence given for that text, and the *)
(* count returned is the number of nodes the call created.                 *)
C3_EntitiesIdempotent ==
    [][ret'.op = "add_entities"
         => /\ DOMAIN nodes' = DOMAIN supplied'
            /\ \A t \in DOMAIN nodes' : nodes'[t].confidence = supplied'[t]
            /\ ret'.value = Cardinality((DOMAIN nodes') \ (DOMAIN nodes))]_vars

(* The same text was given in two calls; the second call created nothing *)
C3_Witness ==
    /\ DOMAIN nodes = {KRAS}
    /\ nodes[KRAS].confidence = HighConfidence
    /\ ingested = 2
    /\ ret.op = "add_entities" /\ ret.value = 0

(* The categories the pattern rules give the names of the vocabulary:      *)
(* all capitals of 2 to 8 characters is a gene; a short name with a digit  *)
(* that starts with a letter is a mutation; a disease keyword is a disease *)
InferredCategory(n) ==
    CASE n = KRAS -> "gene"
      [] n = P53 -> "mutation"
      [] n = TUMOR -> "disease"

NodeAttrKeys == {"type", "label", "confidence", "source"}

(* C5 (as claimed): every endpoint of an edge carries a category, a label, *)
(* a confidence and a provenance.                                          *)
C5_EndpointsAttributed ==
    \A e \in DOMAIN edges :
        /\ e[1] \in DOMAIN nodes /\ NodeAttrKeys \subseteq DOMAIN nodes[e[1]]
        /\ e[2] \in DOMAIN nodes /\ NodeAttrKeys \subseteq DOMAIN nodes[e[2]]

----------------------------------------------------------------------------
(* Claims on the rankers *)

query_terms_of(q) == Split(Lower(q))

label_matches(G, n, q) ==
    \E i \in 1..Len(query_terms_of(q)) :
        Contains(node_label(G, n), query_terms_of(q)[i])

(* C6: on a graph with a node and a query that is not empty, rank gives    *)
(* every node a score from 0 to 1; when some label contains a query term   *)
(* the largest score is exactly 1, and when none does every score is 0.    *)
C6_RankNormalised ==
    (ret.op = "rank" /\ DOMAIN nodes # {} /\ query # EmptyStr)
      => /\ DOMAIN ret.value = DOMAIN nodes
         /\ \A n \in DOMAIN nodes : ret.value[n] >= 0 /\ ret.value[n] <= Unit
         /\ (\E n \in DOMAIN nodes : label_matches(Graph, n, query))
               => \E n \in DOMAIN nodes : ret.value[n] = Unit
         /\ (\A n \in DOMAIN nodes : ~label_matches(Graph, n, query))
               => \A n \in DOMAIN nodes : ret.value[n] = 0

(* A label matched, and activation spread to a node that did not match *)
C6_Witness ==
    /\ ret.op = "rank"
    /\ \E n, m \in DOMAIN nodes :
          /\ label_matches(Graph, n, query)
          /\ ret.value[n] = Unit
          /\ ~label_matches(Graph, m, query)
          /\ ret.value[m] > 0 /\ ret.value[m] < Unit

(* The nodes reached from the set S by edges followed forward ("out"),     *)
(* backward ("in"), or either way ("any")                                  *)
RECURSIVE Reached(_, _, _)
Reached(G, S, way) ==
    LET more == UNION {(IF way # "in" THEN successors(G, n) ELSE {})
                         \cup (IF way # "out" THEN predecessors(G, n) ELSE {}) :
                       n \in S}
    IN  IF more \subseteq S THEN S ELSE Reached(G, S \cup more, way)

Seeded(G, q) == {n \in DOMAIN G.nodes : label_matches(G, n, q)}

(* C7 (as claimed): a node whose label holds no query term, and that has   *)
(* no directed path to a seeded node and none from a seeded node, scores   *)
(* 0: a node joined to a seed only by edges of mixed direction scores 0.   *)
C7_NoDirectedPathNoScore ==
    ret.op = "rank"
      => \A n \in DOMAIN nodes :
            (/\ n \notin Reached(Graph, Seeded(Graph, query), "out")
             /\ n \notin Reached(Graph, Seeded(Graph, query), "in"))
               => ret.value[n] = 0

(* C7 (amended): a node whose label holds no query term, and that no chain *)
(* of edges, each followed in either direction, joins to a seeded node,    *)
(* scores 0.                                                               *)
C7_UnconnectedNoScore ==
    ret.op = "rank"
      => \A n \in DOMAIN nodes :
            n \notin Reached(Graph, Seeded(Graph, query), "any")
               => ret.value[n] = 0

(* A node with an edge of its own, in a graph that has a seeded node it is *)
(* not joined to, scored 0                                                 *)
C7_Witness ==
    /\ ret.op = "rank"
    /\ Seeded(Graph, query) # {}
    /\ \E n \in DOMAIN nodes :
          /\ n \notin Reached(Graph, Seeded(Graph, query), "any")
          /\ successors(Graph, n) # {}
          /\ ret.value[n] = 0

(* C8 (as claimed): without a client, rank_robust returns the map rank     *)
(* returns: the same keys, the same scores.                                *)
C8_RobustEqualsRank ==
    (ret.op = "rank_robust" /\ ~ranker_client)
      => ret.value = rank(Graph, query)

(* C8 (amended): without a client, rank_robust returns the entries of      *)
(* rank's map whose score is above 0, with the same scores; the nodes rank *)
(* scores 0 are absent.                                                    *)
C8_RobustEqualsPositiveRank ==
    (ret.op = "rank_robust" /\ ~ranker_client)
      => LET plain == rank(Graph, query)
         IN  /\ ret.variations = <<query>>
             /\ DOMAIN ret.value = {n \in DOMAIN plain : plain[n] > 0}
             /\ \A n \in DOMAIN ret.value : ret.value[n] = plain[n]

(* Without a client, rank_robust kept some nodes and left out others *)
C8_Witness ==
    /\ ret.op = "rank_robust" /\ ~ranker_client
    /\ DOMAIN ret.value # {}
    /\ DOMAIN ret.value # DOMAIN nodes

----------------------------------------------------------------------------
(* Claims on the loop *)

step_starts(evs) == {i \in 1..Len(evs) : evs[i].type = "step_start"}

(* C9 (as claimed): whatever the reflections answer, the run starts at     *)
(* most max_steps rounds, its trace never holds more than max_steps        *)
(* records, and when it ends it has emitted its result as its last event.  *)
C9_LoopEndsWithResult ==
    /\ Cardinality(step_starts(events)) <= max_steps
    /\ Len(context) <= max_steps
    /\ pc \in {"done", "raised"}
          => /\ events # <<>>
             /\ events[Len(events)].type = "result"

(* The largest score node n has in the rounds scored so far *)
max_scored(n) ==
    MaxFn([i \in {j \in 1..Len(scored) : n \in DOMAIN scored[j]} |-> scored[i][n]],
          {j \in 1..Len(scored) : n \in DOMAIN scored[j]})

(* C10: while the loop runs, the cumulative score of a node never gets     *)
(* smaller; the activations of the result hold exactly the nodes some      *)
(* round scored, each with the largest boosted score it had in a round.    *)
C10_CumulativeIsMaximum ==
    [][/\ pc # "idle" =>
            \A n \in DOMAIN cumulative_activations :
                /\ n \in DOMAIN cumulative_activations'
                /\ cumulative_activations'[n] >= cumulative_activations[n]
       /\ (pc' = "result" /\ pc # "result") =>
            LET out == events'[Len(events')].data.activations
            IN  /\ DOMAIN out = UNION {DOMAIN scored'[i] : i \in 1..Len(scored')}
                /\ \A n \in DOMAIN out : out[n] = max_scored(n)']_vars

(* The second round scored a node lower than the first, and the first      *)
(* score was kept                                                          *)
C10_Witness ==
    /\ Len(scored) = 2
    /\ \E n \in DOMAIN scored[1] \cap DOMAIN scored[2] :
          /\ scored[1][n] > scored[2][n]
          /\ cumulative_activations[n] = scored[1][n]

(* The number of categories among the successors of n, or 1 without any *)
successor_categories(G, n) ==
    LET types == {Get(G.nodes[m], "type", "unknown") : m \in successors(G, n)}
    IN  IF types = {} THEN 1 ELSE Cardinality(types)

(* C11 (as claimed): every value of the activations run_deep_think returns *)
(* lies from 0 to 1.                                                       *)
C11_ActivationsInUnitRange ==
    ret.op = "run_deep_think"
      => \A n \in DOMAIN ret.value.activations :
            /\ ret.value.activations[n] >= 0
            /\ ret.value.activations[n] <= Unit

(* C11 (amended): every value of the activations run_deep_think returns is *)
(* at least 0 and at most 1 + 0.2 * ln(k), k the number of categories      *)
(* among the node's successors: at most 1 when they share one category or  *)
(* there is none.                                                          *)
C11_ActivationsWithinBoost ==
    ret.op = "run_deep_think"
      => \A n \in DOMAIN ret.value.activations :
            /\ ret.value.activations[n] >= 0
            /\ ret.value.activations[n]
                  <= Unit + Mul(Ln[successor_categories(Graph, n)], entropy_weight)

(* The returned activations hold a value above 1 *)
C11_Witness ==
    /\ ret.op = "run_deep_think"
    /\ \E n \in DOMAIN ret.value.activations : ret.value.activations[n] > Unit

(* C12: a call of rank, rank_robust or boost, and every step of a run of   *)
(* the loop, leaves the nodes, the edges and all their attributes as they  *)
(* were; after a call of boost the map it was given is what it was.        *)
C12_RankersLeaveGraph ==
    [][/\ nodes' = nodes
       /\ edges' = edges
       /\ (ret'.op = "boost" /\ ret.op # "boost") => ret'.given = ret.value]_vars

(* boost returned a map that differs from the one it was given, on a      *)
(* graph with edges                                                        *)
C12_Witness ==
    /\ ret.op = "boost"
    /\ ret.value # ret.given
    /\ DOMAIN edges # {}

----------------------------------------------------------------------------
(* More claims on the graph assembler *)

(* C13 (as claimed): after add_opentargets_associations returns, the seed  *)
(* is a node and its confidence is 1.0, whatever the graph held before.    *)
C13_SeedIsGroundTruth ==
    ret.op = "add_opentargets_associations"
      => /\ ret.seed_name \in DOMAIN nodes
         /\ HasAttr(nodes[ret.seed_name], "confidence")
         /\ nodes[ret.seed_name].confidence = Unit

(* C14: add_opentargets_associations leaves every edge that existed with   *)
(* all its attributes, whatever the scores of the records; the edges it    *)
(* creates go from the seed to the neighbours of its records.              *)
C14_AssociationsKeepEdges ==
    [][ret'.op = "add_opentargets_associations"
         => /\ \A e \in DOMAIN edges : e \in DOMAIN edges' /\ edges'[e] = edges[e]
            /\ DOMAIN edges' =
                  (DOMAIN edges)
                     \cup {<<ret'.seed_name, ret'.neighbors[i].id>> :
                              i \in 1..Len(ret'.neighbors)}]_vars

(* A record named a neighbour the seed already had an edge to, an edge of  *)
(* another source with a weight other than the score of the record         *)
C14_Witness ==
    /\ ret.op = "add_opentargets_associations"
    /\ \E i \in 1..Len(ret.neighbors) :
          LET e == <<ret.seed_name, ret.neighbors[i].id>>
          IN  /\ e \in DOMAIN edges
              /\ edges[e].source # "opentargets"
              /\ edges[e].weight # Round3(Get(ret.neighbors[i], "score", Unit \div 2))

signaling_partners(data, g, side) ==
    LET listed == Get(Get(data.signaling_cascades, g, NoAttrs), side, <<>>)
    IN  {listed[i][1] : i \in 1..Len(listed)}

has_role(n, role) ==
    /\ n \in DOMAIN nodes
    /\ HasAttr(nodes[n], "signal_role")
    /\ nodes[n].signal_role = role

(* C15 (as claimed): after add_pathway_enrichment(g) for a gene g with     *)
(* signaling partners, g has the role target, every partner listed         *)
(* upstream has the role upstream and every partner listed downstream has  *)
(* the role downstream.                                                    *)
C15_RolesAsListed ==
    LET g == ret.seed_gene
        up == signaling_partners(pathways, g, "upstream")
        down == signaling_partners(pathways, g, "downstream")
    IN  (ret.op = "add_pathway_enrichment" /\ up \cup down # {})
          => /\ has_role(g, "target")
             /\ \A n \in up : has_role(n, "upstream")
             /\ \A n \in down : has_role(n, "downstream")

(* C15 (amended): after add_pathway_enrichment(g) for a gene g with        *)
(* signaling partners, g has the role target; every partner listed         *)
(* downstream, other than g, has the role downstream; every partner listed *)
(* upstream only, other than g, has the role upstream.                     *)
C15_RolesLastWritten ==
    LET g == ret.seed_gene
        up == signaling_partners(pathways, g, "upstream")
        down == signaling_partners(pathways, g, "downstream")
    IN  (ret.op = "add_pathway_enrichment" /\ up \cup down # {})
          => /\ has_role(g, "target")
             /\ \A n \in down \ {g} : has_role(n, "downstream")
             /\ \A n \in up \ (down \cup {g}) : has_role(n, "upstream")

(* The gene is among its own downstream partners, and a partner is listed  *)
(* on both sides                                                           *)
C15_Witness ==
    LET g == ret.seed_gene
        up == signaling_partners(pathways, g, "upstream")
        down == signaling_partners(pathways, g, "downstream")
    IN  /\ ret.op = "add_pathway_enrichment"
        /\ g \in down
        /\ \E n \in (up \cap down) \ {g} : has_role(n, "downstream")
        /\ has_role(g, "target")

----------------------------------------------------------------------------
(* C16: on a graph that was never populated, serialise returns the empty   *)
(* payload (nodes [], links [], zero counts, empty per-type counts, legend *)
(* []), rank and rank_robust return the empty map, and run_deep_think      *)
(* raises nothing and returns empty activations with a trace of the rounds *)
(* it ran.                                                                 *)
C16_EmptyGraphResults ==
    DOMAIN nodes = {} =>
        /\ pc # "raised"
        /\ ret.op = "serialise" => ret.value = EmptyPayload
        /\ ret.op \in {"rank", "rank_robust"} => ret.value = NoAttrs
        /\ ret.op = "run_deep_think" =>
               /\ ret.value.activations = NoAttrs
               /\ Len(ret.value.trace) <= max_steps
               /\ max_steps >= 1 => Len(ret.value.trace) >= 1

(* The parts of C16 that no exception touches *)
C16_EmptyGraphResultsWhenReturned ==
    DOMAIN nodes = {} =>
        /\ ret.op = "serialise" => ret.value = EmptyPayload
        /\ ret.op \in {"rank", "rank_robust"} => ret.value = NoAttrs
        /\ ret.op = "run_deep_think" =>
               /\ ret.value.activations = NoAttrs
               /\ Len(ret.value.trace) <= max_steps
               /\ max_steps >= 1 => Len(ret.value.trace) >= 1
        /\ ret.op = "compute_layout" => ret.value = NoAttrs /\ _layout_cache_key = <<>>

----------------------------------------------------------------------------
C17_RadiusAtLeastBase ==
    ret.op = "serialise" =>
        \A n \in DOMAIN ret.value.nodes :
            ret.value.nodes[n].radius >= BASE_RADIUS * Tenths

----------------------------------------------------------------------------
(* C18: a call of compute_layout on a graph with nodes returns the stored  *)
(* layout, computing nothing and leaving the cache as it was, exactly when *)
(* (number of nodes, number of edges, width, height) equals the key stored *)
(* by the last computation; in every other case it computes the layout of  *)
(* the current graph, returns it, and stores it with that key.             *)
C18_LayoutCachedByKey ==
    [][(ret'.op = "compute_layout" /\ nodes' = nodes /\ edges' = edges
            /\ DOMAIN nodes # {}) =>
        LET key == <<number_of_nodes(Graph), number_of_edges(Graph),
                     ret'.width, ret'.height>>
        IN  IF _layout_cache_key = key
            THEN /\ ~ret'.computed
                 /\ ret'.value = _layout_cache
                 /\ UNCHANGED viewVars
            ELSE /\ ret'.computed
                 /\ ret'.value = scaled_layout(Graph, ret'.width, ret'.height,
                                               ret'.padding)
                 /\ _layout_cache' = ret'.value
                 /\ _layout_cache_key' = key]_vars

(* A call answered from the cache, on a graph of two edges or more whose   *)
(* counts and the sizes asked for are those of the last computation        *)
C18_Witness ==
    /\ ret.op = "compute_layout"
    /\ ~ret.computed
    /\ DOMAIN nodes # {}
    /\ ret.value = _layout_cache
    /\ _layout_cache_key = <<number_of_nodes(Graph), number_of_edges(Graph),
                             ret.width, ret.height>>
    /\ number_of_edges(Graph) >= 2

----------------------------------------------------------------------------
(* C19: with no language-model client, a run of run_deep_think with        *)
(* max_steps >= 1 raises nothing, starts exactly one round, and returns    *)
(* the boosted scores of that round as activations with a trace of one     *)
(* record.                                                                 *)
C19_NoClientOneRound ==
    (~loop_client /\ max_steps >= 1) =>
        /\ pc # "raised"
        /\ step = 0
        /\ Cardinality(step_starts(events)) = 1
        /\ Len(scored) <= 1
        /\ Len(context) <= 1
        /\ ret.op = "run_deep_think" =>
               /\ Len(scored) = 1
               /\ ret.value.activations = scored[1]
               /\ Len(ret.value.trace) = 1
               /\ ret.value.trace[1].rationale = "No LLM"

(* A run without client that was allowed two rounds or more returned the   *)
(* scores of its one round, some of them positive                          *)
C19_Witness ==
    /\ ~loop_client
    /\ max_steps >= 2
    /\ ret.op = "run_deep_think"
    /\ Len(ret.value.trace) = 1
    /\ \E n \in DOMAIN ret.value.activations : ret.value.activations[n] > 0

----------------------------------------------------------------------------
(* The failed calls of the run that were reflections, by their round *)
failed_reflections ==
    {llm_failures[i].round :
        i \in {j \in 1..Len(llm_failures) : llm_failures[j].call = "reflection"}}

(* C20 (as claimed): in a run where a language-model call failed, in the   *)
(* variation generation or the reflection of any round, no exception       *)
(* reaches the caller; a failed reflection ends the loop as a pass, and    *)
(* the result holds the scores merged up to and including that round.      *)
C20_LlmFailureNeverRaises ==
    llm_failures # <<>> =>
        /\ pc # "raised"
        /\ \A k \in failed_reflections :
               /\ pc \in {"saturated", "result", "done"}
               /\ Len(context) = k
               /\ context[k].rationale = "Error"
        /\ (ret.op = "run_deep_think" /\ failed_reflections # {}) =>
               /\ ret.value.activations = cumulative_activations
               /\ Len(ret.value.trace) = Len(scored)

(* What holds of C20: a failed reflection ends the loop as a pass, and the *)
(* result holds the scores merged up to and including its round            *)
C20_FailedReflectionEndsLoop ==
    /\ \A k \in failed_reflections :
           /\ pc \in {"saturated", "result", "done"}
           /\ Len(context) = k
           /\ context[k].rationale = "Error"
    /\ (ret.op = "run_deep_think" /\ failed_reflections # {}) =>
           /\ ret.value.activations = cumulative_activations
           /\ Len(ret.value.trace) = Len(scored)

----------------------------------------------------------------------------
results_of(evs) == {i \in 1..Len(evs) : evs[i].type = "result"}

(* Each round started so far has emitted, in this order, its step_start    *)
(* and then the ranking, boosting and reflecting status events, as far as  *)
(* the run has got; the rounds are numbered 1, 2, 3, ...                   *)
rounds_in_order(evs) ==
    \A i \in step_starts(evs) :
        LET k == evs[i].step
        IN  /\ k = Cardinality({j \in step_starts(evs) : j <= i})
            /\ i + 1 <= Len(evs) => evs[i + 1] = StatusEvent(k, "ranking")
            /\ i + 2 <= Len(evs) => evs[i + 2] = StatusEvent(k, "boosting")
            /\ i + 3 <= Len(evs) => evs[i + 3] = StatusEvent(k, "reflecting")

(* C21 (as claimed): every run of run_deep_think_stream, once over, has    *)
(* emitted exactly one result event, as its last event; each round emits   *)
(* step_start (numbered 1, 2, 3, ...), then the ranking, boosting and      *)
(* reflecting status events; run_deep_think returns the data of the result *)
(* event.                                                                  *)
C21_OneResultLast ==
    /\ rounds_in_order(events)
    /\ pc \in {"done", "raised"} =>
           /\ results_of(events) = {Len(events)}
           /\ events # <<>>
    /\ ret.op = "run_deep_think" =>
           ret.value = events[Len(events)].data

(* What holds of C21: the order of the events of a round, and the single   *)
(* last result event of a run that returned                                *)
C21_OneResultLastWhenReturned ==
    /\ rounds_in_order(events)
    /\ pc \in {"result", "done"} =>
           /\ results_of(events) = {Len(events)}
           /\ events # <<>>
    /\ pc \notin {"result", "done"} => results_of(events) = {}
    /\ ret.op = "run_deep_think" =>
           ret.value = events[Len(events)].data

----------------------------------------------------------------------------
(* The rounds whose reflection is over: those that were started and are    *)
(* not being ranked, boosted or reflected on                               *)
rounds_reflected ==
    IF pc \in {"step_start", "ranking", "boosting", "reflecting", "raised"}
    THEN Cardinality(step_starts(events)) - 1
    ELSE Cardinality(step_starts(events))

(* The query of round k, as its step_start event announced it *)
round_query(k) ==
    LET i == CHOOSE j \in step_starts(events) : events[j].step = k
    IN  events[i].query

TraceRecordKeys == {"step", "query", "passed", "critique", "detected_failure_modes"}

(* C22 (as claimed): every executed round has appended exactly one trace   *)
(* record, in round order, and the record carries the step index, the      *)
(* query of the round, the passed flag, the critique text and the detected *)
(* failure modes.                                                          *)
C22_TraceRecordPerRound ==
    /\ pc # "raised"
    /\ Len(context) = rounds_reflected
    /\ \A k \in 1..Len(context) :
           /\ TraceRecordKeys \subseteq DOMAIN context[k]
           /\ context[k].query = round_query(k)

(* What holds of C22: every round whose reflection returned has appended   *)
(* one record, in round order, with the query of the round, the first      *)
(* nodes of its result and the rationale of the reflection                 *)
C22_RecordPerReflectedRound ==
    /\ Len(context) = rounds_reflected
    /\ \A k \in 1..Len(context) :
           /\ DOMAIN context[k] = {"query", "top_nodes", "rationale"}
           /\ context[k].query = round_query(k)
           /\ k <= Len(scored) => context[k].top_nodes \subseteq DOMAIN scored[k]

----------------------------------------------------------------------------
(* A relation item that names a head and a tail: a pair of two elements or *)
(* more, or a dict whose head and tail are each a str or a dict with text  *)
names_endpoint(raw) ==
    \/ raw.kind = "str" /\ raw.text # EmptyStr
    \/ raw.kind = "dict" /\ Get(raw.d, "text", EmptyStr) # EmptyStr

well_formed_item(item) ==
    \/ item.kind = "pair" /\ Len(item.elems) >= 2
    \/ /\ item.kind = "dict"
       /\ {"head", "tail"} \subseteq DOMAIN item.d
       /\ names_endpoint(item.d.head)
       /\ names_endpoint(item.d.tail)

(* The malformed items of the claim: not a pair or dict, a pair of one     *)
(* element, a dict without tail, a dict without head, a head that is       *)
(* neither a str nor a dict                                                *)
MalformedItemKinds ==
    MalformedRelationItems
        \cup {PairItem(<<KRAS>>), DictItem([tail |-> StrItem(TUMOR)])}

MixedRelationBatches ==
    LET entries == [rel : {"targets"},
                    item : {PairItem(<<KRAS, TUMOR>>), StrongItem(P53, TUMOR)}
                             \cup MalformedItemKinds]
    IN  {b \in Batches(entries, MaxItems) :
            \E i \in 1..Len(b) : ~well_formed_item(b[i].item)}

(* Every well-formed item of the batch has its edge in the graph *)
well_formed_ingested(G, batch) ==
    \A i \in 1..Len(batch) :
        well_formed_item(batch[i].item) =>
            LET p == _parse_relation_item(batch[i].item)
            IN  has_edge(G, p.head, p.tail)

(* C23 (as claimed): add_relations on a batch holding a malformed item     *)
(* raises nothing, skips that item alone, and ingests every well-formed    *)
(* item before and after it, whatever the graph held.                      *)
C23_MalformedItemSkipped ==
    /\ ret.op = "add_relations" => ~exc
    /\ \A batch \in MixedRelationBatches :
           LET r == add_relations(Graph, batch)
           IN  /\ ~r.raised
               /\ well_formed_ingested(r.G, batch)

(* What holds of C23: a batch whose malformed items are all of the kinds   *)
(* that .get is not called on (no item with a head or tail that is neither *)
(* str nor dict) raises nothing, and its well-formed items are ingested    *)
C23_SkippedUnlessEndpointOther ==
    \A batch \in MixedRelationBatches :
        LET r == add_relations(Graph, batch)
            other == \E i \in 1..Len(batch) :
                        /\ batch[i].item.kind = "dict"
                        /\ \E k \in DOMAIN batch[i].item.d :
                               batch[i].item.d[k].kind = "other"
        IN  IF other THEN r.raised
            ELSE ~r.raised /\ well_formed_ingested(r.G, batch)


(* The curated names of a gene: its pathways, cell types and signalling    *)
(* partners                                                                *)
curated_names(data, g) ==
    LET sig == Get(data.signaling_cascades, g, NoAttrs)
        ps == Get(data.gene_pathways, g, <<>>)
        cs == Get(data.gene_cell_types, g, <<>>)
        us == Get(sig, "upstream", <<>>)
        ds == Get(sig, "downstream", <<>>)
    IN  {ps[i] : i \in 1..Len(ps)} \cup {cs[i] : i \in 1..Len(cs)}
          \cup {us[i][1] : i \in 1..Len(us)} \cup {ds[i][1] : i \in 1..Len(ds)}

(* Every extracted gene that the curated tables know has its curated       *)
(* nodes in the graph                                                      *)
extracted_genes_enriched(G, data, extraction) ==
    LET genes == gene_items(extraction.entities, 1)
    IN  \A i \in 1..Len(genes) :
            LET gname == entity_text(genes[i])
            IN  gname # EmptyStr =>
                    \A n \in curated_names(data, gname) : has_node(G, n)

(* Every extracted entity and every extracted relation is in the graph *)
extraction_ingested(G, extraction) ==
    /\ \A i \in 1..Len(extraction.entities) :
           LET t == entity_text(extraction.entities[i].item)
           IN  t # EmptyStr => has_node(G, t)
    /\ well_formed_ingested(G, extraction.relations)

(* The seed, its associations and, for a gene seed, its curated names are  *)
(* in the graph                                                            *)
seed_content_ingested(G, data, seed_entity, neighbors) ==
    /\ has_node(G, seed_entity.name)
    /\ \A i \in 1..Len(neighbors) : has_node(G, neighbors[i].id)
    /\ seed_entity.entity = "target" =>
           \A n \in curated_names(data, seed_entity.name) : has_node(G, n)

(* The extraction succeeded: extract_all returned and its items were       *)
(* ingested without an exception                                           *)
extraction_succeeded == ret.extraction.ok /\ ret.last_extraction.ok

(* C24 (as claimed): build_from_query raises nothing; with no seed         *)
(* resolved and a successful extraction the graph holds every extracted    *)
(* entity and relation and the curated enrichment of the extracted genes;  *)
(* with a failed extraction and a resolved seed the graph holds the        *)
(* association and enrichment content.                                     *)
C24_CollaboratorFailureSkipsOnlyItsContent ==
    ret.op = "build_from_query" =>
        /\ ~exc
        /\ (~ret.seed_entity.hit /\ extraction_succeeded) =>
               /\ extraction_ingested([nodes |-> nodes, edges |-> edges],
                                      ret.extraction)
               /\ extracted_genes_enriched([nodes |-> nodes, edges |-> edges],
                                           pathways, ret.extraction)
        /\ (ret.seed_entity.hit /\ ~ret.extraction.ok) =>
               seed_content_ingested([nodes |-> nodes, edges |-> edges],
                                     pathways, ret.seed_entity, ret.neighbors)

(* What holds of build_from_query: the extracted content is kept whether   *)
(* or not a seed resolves, the seed content is ingested when extraction    *)
(* fails, and the extracted genes are enriched only under a resolved seed. *)
C24_EnrichmentOnlyUnderResolvedSeed ==
    (ret.op = "build_from_query" /\ ~exc) =>
        /\ extraction_succeeded =>
               extraction_ingested([nodes |-> nodes, edges |-> edges],
                                   ret.extraction)
        /\ ret.seed_entity.hit =>
               seed_content_ingested([nodes |-> nodes, edges |-> edges],
                                     pathways, ret.seed_entity, ret.neighbors)
        /\ (ret.seed_entity.hit /\ extraction_succeeded) =>
               extracted_genes_enriched([nodes |-> nodes, edges |-> edges],
                                        pathways, ret.extraction)

(* build_from_query never raises on the extractions modelled *)
C24_BuildNeverRaises == ret.op = "build_from_query" => ~exc

(* No seed resolved, extraction succeeded, and an extracted gene known to  *)
(* the curated tables has none of its curated content in the graph         *)
C24_ExtractedGeneLeftBare ==
    /\ ret.op = "build_from_query"
    /\ ~ret.seed_entity.hit
    /\ extraction_succeeded
    /\ ~extracted_genes_enriched([nodes |-> nodes, edges |-> edges],
                                 pathways, ret.extraction)


(* A thread is between the assignment of set and the end of its eviction   *)
(* loop                                                                    *)
set_in_progress ==
    \E t \in Threads : thread[t].pc \in {"set_move", "set_evict"}

(* C25: under any interleaving of get and set calls of the threads, the    *)
(* ExtractionCache holds at most max_size entries whenever no set is in    *)
(* progress, the entry evicted on overflow is the least recently used one  *)
(* (a successful get or a set makes an entry the most recent), and a get   *)
(* returns no entry whose ttl had elapsed when the get read the clock.     *)
C25_ExtractionCacheContract ==
    /\ ~set_in_progress => Len(cache) <= max_size
    /\ evicted.op = "set" => evicted.key = evicted.lru
    /\ \A t \in Threads :
           (thread[t].pc = "get_exit" /\ thread[t].value # None) =>
               thread[t].read_at - thread[t].timestamp <= ttl

(* At most one thread is inside a with block, and it holds the lock *)
C25_LockExcludes ==
    \A t \in Threads :
        thread[t].pc \in {"get_body", "get_exit", "set_assign", "set_move",
                          "set_evict", "set_exit"} => _lock = t

(* One thread returns a hit on an entry as old as its ttl allows while     *)
(* the other waits for the lock to set a key, after an eviction took place *)
C25_Witness ==
    /\ evicted.op = "set"
    /\ \E t, u \in Threads :
           /\ thread[t].pc = "get_exit"
           /\ thread[t].value # None
           /\ thread[t].read_at - thread[t].timestamp = ttl
           /\ thread[u].pc = "set_lock"
    /\ Len(cache) = max_size


(* C28: however the threads' calls of _GLiNER2Singleton.get() and          *)
(* get_extractor() interleave, each singleton is constructed at most once, *)
(* and every call that returns yields that one instance.                   *)
C28_ConstructedOnce ==
    /\ \A s \in Singletons : Cardinality(constructed[s]) <= 1
    /\ \A t \in Threads :
           thread[t].pc = "returned" =>
               constructed[thread[t].s] = {thread[t].value}

(* Both threads found no instance before either took the lock; one has     *)
(* constructed and returned it, the other is past its check under the lock *)
(* and about to return                                                     *)
C28_Witness ==
    \E t, u \in Threads, s \in Singletons :
        /\ t # u
        /\ thread[t].pc = "returned" /\ thread[t].s = s
        /\ thread[u].pc = "unlock" /\ thread[u].s = s
        /\ constructed[s] = {thread[t].value}


(* The unexpired items stored under the tool whose keywords are the        *)
(* query's keywords and one more                                           *)
superset_entries(od, tool, params, now) ==
    {i \in 1..Len(od) :
        /\ ~entry_is_expired(od[i].entry, now)
        /\ od[i].key.tool = tool
        /\ LET stored == keywords_of(Get(od[i].entry.data, "_params", NoAttrs))
           IN  /\ keywords_of(params) \subseteq stored
               /\ Cardinality(stored \ keywords_of(params)) = 1}

(* The cache holds an unexpired entry under exactly the key of the call *)
exact_entry(od, tool, params, now) ==
    /\ od_contains(od, normalized_key(tool, params))
    /\ ~entry_is_expired(od_getitem(od, normalized_key(tool, params)), now)

(* C26 (as claimed): a fuzzy get with no exact entry returns the data of   *)
(* an unexpired entry of the same tool whose parameters hold the query's   *)
(* keywords plus one more, whenever the cache has one, and never returns   *)
(* an entry stored under another tool.                                     *)
C26_FuzzyHitOnOneMoreKeyword ==
    [][(clock' = clock /\ ret'.op = "semantic_get" /\ ret'.fuzzy) =>
          /\ (/\ ~exact_entry(cache, ret'.tool, ret'.params, clock)
              /\ superset_entries(cache, ret'.tool, ret'.params, clock) # {})
                => /\ ret'.hit # "miss"
                   /\ ret'.value \in
                     {cache[i].entry.data :
                        i \in superset_entries(cache, ret'.tool, ret'.params, clock)}
          /\ ret'.hit # "miss" => ret'.key.tool = ret'.tool]_vars

(* What holds of a fuzzy get with no exact entry: it returns data exactly  *)
(* when an unexpired entry of the same tool has a keyword overlap above    *)
(* 0.8 of the union, and what it returns is stored under the same tool.    *)
C26_FuzzyHitAboveThreshold ==
    [][(clock' = clock /\ ret'.op = "semantic_get" /\ ret'.fuzzy
          /\ ~exact_entry(cache, ret'.tool, ret'.params, clock)) =>
          /\ ret'.hit # "miss" <=>
                \E i \in 1..Len(cache) :
                    /\ ~entry_is_expired(cache[i].entry, clock)
                    /\ cache[i].key.tool = ret'.tool
                    /\ cache[i].key # normalized_key(ret'.tool, ret'.params)
                    /\ similar(keywords_of(ret'.params),
                               keywords_of(cache[i].entry.data["_params"]))
          /\ ret'.hit # "miss" =>
                /\ ret'.key.tool = ret'.tool
                /\ \E i \in 1..Len(cache) :
                       cache[i].key = ret'.key /\ cache[i].entry.data = ret'.value]_vars

(* A fuzzy get returned None while the cache held an unexpired entry of    *)
(* the same tool with the query's keywords plus one more                   *)
C26_OneMoreKeywordMissed ==
    /\ ret.op = "semantic_get" /\ ret.fuzzy /\ ret.hit = "miss"
    /\ superset_entries(cache, ret.tool, ret.params, clock) # {}

(* C29 (as claimed): the SemanticCache never holds more than max_size      *)
(* entries, and the entry a set evicts is the least recently used one,     *)
(* counting an exact hit, a fuzzy hit and every set of its key as a use.   *)
C29_SemanticCacheIsLru ==
    /\ Len(cache) <= max_size
    /\ evicted.op = "semantic_set" => evicted.key = evicted.lru

(* What holds: the size bound, and the keys of the use history are the     *)
(* keys cached                                                             *)
C29_SemanticCacheBounded ==
    /\ Len(cache) <= max_size
    /\ {cache[i].key : i \in 1..Len(cache)} = {recent[i] : i \in 1..Len(recent)}


(* The categories of the successors of a node *)
successor_types(G, node) ==
    {Get(G.nodes[n], "type", "unknown") : n \in successors(G, node)}

(* The node is in the graph and its successors are of two categories or    *)
(* more                                                                    *)
spans_categories(G, node) ==
    node \in DOMAIN G.nodes /\ Cardinality(successor_types(G, node)) >= 2

(* C27 (as claimed): boost returns a map with the keys of its input; a     *)
(* score changes only if it is above the 0.05 floor and the node's         *)
(* neighbours span two categories or more, and then it increases; a score  *)
(* at or below the floor is unchanged.                                     *)
C27_BoostAboveFloorOnly ==
    ret.op = "boost" =>
        /\ DOMAIN ret.value = DOMAIN ret.given
        /\ \A node \in DOMAIN ret.given :
               IF ret.given[node] > boost_threshold /\ spans_categories(Graph, node)
               THEN ret.value[node] > ret.given[node]
               ELSE ret.value[node] = ret.given[node]

(* C27 (amended): the same with the floor included: a score of 0.05 or     *)
(* more on a node of the graph whose successors span two categories or     *)
(* more strictly increases; every other score is returned unchanged.       *)
C27_BoostFromFloorUp ==
    ret.op = "boost" =>
        /\ DOMAIN ret.value = DOMAIN ret.given
        /\ \A node \in DOMAIN ret.given :
               IF ret.given[node] >= boost_threshold /\ spans_categories(Graph, node)
               THEN ret.value[node] > ret.given[node]
               ELSE ret.value[node] = ret.given[node]

(* A map with a score exactly at the floor on the node with successors of  *)
(* several categories, which was raised, and scores kept on a node below   *)
(* the floor, a node without successors, a node with one category of       *)
(* successors and a node that is not in the graph                          *)
C27_Witness ==
    /\ ret.op = "boost"
    /\ DOMAIN ret.given = {KRAS, HYPOXIA, CASCADE, P53}
    /\ ret.given[KRAS] = boost_threshold /\ ret.value[KRAS] > boost_threshold
    /\ ret.given[HYPOXIA] = Unit /\ ret.value[HYPOXIA] = Unit
    /\ ret.given[CASCADE] = Unit /\ ret.value[CASCADE] = Unit
    /\ ret.given[P53] = Unit /\ ret.value[P53] = Unit
    /\ spans_categories(Graph, KRAS)
    /\ successors(Graph, HYPOXIA) # {} /\ ~spans_categories(Graph, HYPOXIA)
    /\ KRAS \in DOMAIN nodes /\ successors(Graph, CASCADE) = {}
    /\ P53 \notin DOMAIN nodes


(* C30 (as claimed): the positions a compute_layout call returns on a      *)
(* non-empty graph lie within the padding given to that call, and are the  *)
(* layout of the graph as it is at that call, edge weights included,       *)
(* whatever calls were made before.                                        *)
C30_LayoutOfCurrentGraph ==
    (ret.op = "compute_layout" /\ DOMAIN nodes # {}) =>
        /\ \A n \in DOMAIN ret.value :
               /\ ret.value[n][1] >= Tenths * ret.padding
               /\ ret.value[n][1] <= Tenths * (ret.width - ret.padding)
               /\ ret.value[n][2] >= Tenths * ret.padding
               /\ ret.value[n][2] <= Tenths * (ret.height - ret.padding)
        /\ ret.value = scaled_layout(Graph, ret.width, ret.height, ret.padding)

(* What holds: the positions lie within the padding of the call that       *)
(* computed them, and a call that computed returns the layout of the       *)
(* current graph                                                           *)
C30_ComputedLayoutIsCurrent ==
    (ret.op = "compute_layout" /\ DOMAIN nodes # {} /\ ret.computed) =>
        ret.value = scaled_layout(Graph, ret.width, ret.height, ret.padding)

(* A call answered from the cache with a layout that is not the layout of  *)
(* the graph it was called on                                              *)
C30_StaleLayoutReturned ==
    /\ ret.op = "compute_layout"
    /\ ~ret.computed
    /\ DOMAIN nodes # {}
    /\ ret.value # scaled_layout(Graph, ret.width, ret.height, ret.padding)

====
